---- MODULE Spec2Model ----
(***************************************************************************)
(* A model of the hypergo / hyperview / renderfish view-rendering layer:   *)
(* the dispatch facade (HyperView) with its adapter registry and RWMutex,  *)
(* the html/template adapter with its template registry, the JSON adapter  *)
(* and the redirect helper.                                                *)
(*                                                                         *)
(* Strings that the code cuts or compares (template paths, extensions,     *)
(* adapter names, URLs, file names) are sequences of tokens; "." and "/"   *)
(* are always tokens of their own, so strings.LastIndex(s, ".") and the    *)
(* slicing around it are computed on the sequence exactly as the code      *)
(* computes them on bytes.  Go's 0-based index with -1 for "absent" is the *)
(* 1-based index with 0 for "absent" here.                                 *)
(***************************************************************************)
EXTENDS Integers, Sequences, FiniteSets, TLC

\* ------------------------------------------------------------------ bounds
\* how many administrative calls (RegisterAdapter, Reinit,
\* MaybeRegisterDefaultAdapters) a run makes after construction
MaxAdminCalls == 2
\* how many request-handling calls (Render, Adapter, Redirect) a run makes
MaxRequests == 1
\* how many widths a call of Srcset is given at most
MaxWidths == 2

\* ------------------------------------------------------- program constants
StatusOK == 200
StatusFound == 302
StatusSeeOther == 303
StatusInternalServerError == 500

RootFSID == <<"__ROOT__">>
ViewsDir == <<"views">>
PartialsDir == <<"partials">>
LayoutsDir == <<"layouts">>
SystemDir == <<"system">>

HTML == <<"html">>
JSON == <<"json">>
EmptyStr == <<>>
Dot == "."
Slash == "/"
Colon == ":"

\* ------------------------------------------------------------ string helpers
\* strings.LastIndex(s, c): the last position of token c in s, 0 if absent
LastIndex(s, c) ==
    IF \E i \in 1..Len(s) : s[i] = c
    THEN CHOOSE i \in 1..Len(s) : s[i] = c /\ \A j \in (i+1)..Len(s) : s[j] # c
    ELSE 0

\* s[idx:] and s[:idx] of Go, for the 1-based position idx of a token
SliceFrom(s, idx) == SubSeq(s, idx, Len(s))
SliceTo(s, idx) == SubSeq(s, 1, idx - 1)

HasToken(s, c) == \E i \in 1..Len(s) : s[i] = c

\* filepath.Ext: the suffix beginning at the final dot of the final element
FilepathExt(p) ==
    LET i == LastIndex(p, Dot)
        j == LastIndex(p, Slash)
    IN  IF i > j THEN SliceFrom(p, i) ELSE <<>>

\* strings.TrimSuffix
TrimSuffix(s, suf) ==
    IF Len(suf) <= Len(s) /\ SubSeq(s, Len(s) - Len(suf) + 1, Len(s)) = suf
    THEN SubSeq(s, 1, Len(s) - Len(suf))
    ELSE s

\* a map with one key set (Go's m[k] = v)
MapSet(m, k, v) == [x \in DOMAIN m \cup {k} |-> IF x = k THEN v ELSE m[x]]
EmptyMap == [x \in {} |-> 0]

\* --------------------------------------------------- http.ResponseWriter
\* What the client receives: status 0 means no status line has been written.
\* Headers set after the status line are not sent; a second WriteHeader is
\* ignored; a Write before any WriteHeader sends an implicit 200.
NewWriter == [status |-> 0, headers |-> EmptyMap, body |-> <<>>]

HeaderSet(w, k, v) ==
    IF w.status # 0 THEN w ELSE [w EXCEPT !.headers = MapSet(w.headers, k, v)]

\* WriteHeader panics on a code outside 100..999 (net/http checkWriteHeaderCode)
ValidStatus(code) == code >= 100 /\ code <= 999

WriteHeader(w, code) ==
    IF w.status # 0 THEN w ELSE [w EXCEPT !.status = code]

Write(w, chunk) ==
    LET w1 == WriteHeader(w, StatusOK)
    IN  [w1 EXCEPT !.body = Append(w1.body, chunk)]

TextChunk(msg) == [kind |-> "text", text |-> msg]
JSONChunk(v) == [kind |-> "json", value |-> v]
PageChunk(key, layout) == [kind |-> "page", page |-> key, layout |-> layout]

\* http.Error: plain-text content type, nosniff, the status, then the
\* message followed by a newline (fmt.Fprintln)
HttpError(w, msg, code) ==
    LET w1 == HeaderSet(w, "Content-Type", <<"text/plain; charset=utf-8">>)
        w2 == HeaderSet(w1, "X-Content-Type-Options", <<"nosniff">>)
        w3 == WriteHeader(w2, code)
    IN  Write(w3, TextChunk(msg \o <<"\n">>))

\* the body holds the text msg (strings.Contains on the written bytes)
BodyContains(w, msg) ==
    \E i \in 1..Len(w.body) :
        /\ w.body[i].kind = "text"
        /\ \E k \in 0..(Len(w.body[i].text) - Len(msg)) :
              SubSeq(w.body[i].text, k + 1, k + Len(msg)) = msg

\* ----------------------------------------------------------------- Response
\* The fluent builder: template path, layout, status (0 = unset) and the
\* custom headers (string -> string).
NewResponse == [path |-> <<>>, layout |-> <<>>, status |-> 0, headers |-> EmptyMap]

RespPath(resp, p) == [resp EXCEPT !.path = p]
RespLayout(resp, l) == [resp EXCEPT !.layout = l]
RespStatus(resp, c) == [resp EXCEPT !.status = c]
RespHeader(resp, k, v) == [resp EXCEPT !.headers = MapSet(resp.headers, k, v)]

\* resp.HTTPHeader().Get(k): "" when the header is not set
RespHeaderGet(resp, k) == IF k \in DOMAIN resp.headers THEN resp.headers[k] ELSE <<>>

\* --------------------------------------------------------------- file system
\* A mounted source as fs.WalkDir enumerates it (lexical order); good tells
\* whether html/template parses the file.
File(p, g) == [path |-> p, good |-> g]
TmplExt == <<".", "tmpl">>
GtmlExt == <<".", "gtml">>

DiskNone == <<>>
DiskSite ==
    << File(<<"layouts", "/", "base", ".", "tmpl">>, TRUE),
       File(<<"partials", "/", "nav", ".", "tmpl">>, TRUE),
       File(<<"views", "/", "about", ".", "gtml">>, TRUE),
       File(<<"views", "/", "broken", ".", "gtml">>, FALSE),
       File(<<"views", "/", "home", ".", "tmpl">>, TRUE),
       File(<<"views", "/", "system", "/", "500", ".", "tmpl">>, TRUE) >>
Disks == {DiskNone, DiskSite}

\* a site with all six error pages
DiskPages ==
    << File(<<"layouts", "/", "base", ".", "tmpl">>, TRUE),
       File(<<"views", "/", "home", ".", "tmpl">>, TRUE),
       File(<<"views", "/", "system", "/", "401", ".", "tmpl">>, TRUE),
       File(<<"views", "/", "system", "/", "403", ".", "tmpl">>, TRUE),
       File(<<"views", "/", "system", "/", "404", ".", "tmpl">>, TRUE),
       File(<<"views", "/", "system", "/", "405", ".", "tmpl">>, TRUE),
       File(<<"views", "/", "system", "/", "500", ".", "tmpl">>, TRUE),
       File(<<"views", "/", "system", "/", "503", ".", "tmpl">>, TRUE) >>
PageDisks == {DiskNone, DiskSite, DiskPages}

\* A root file system whose views lie in sub-directories, one of them named
\* like the key of a page of a mounted source
DiskViews ==
    << File(<<"layouts", "/", "base", ".", "tmpl">>, TRUE),
       File(<<"views", "/", "a", ":", "views", "/", "x", ".", "tmpl">>, TRUE),
       File(<<"views", "/", "dashboard", "/", "account", ".", "tmpl">>, TRUE),
       File(<<"views", "/", "home", ".", "gtml">>, TRUE),
       File(<<"views", "/", "home", ".", "tmpl">>, TRUE) >>

\* file systems that are mounted next to the root
MountedDisks ==
    [admin |-> << File(<<"partials", "/", "menu", ".", "tmpl">>, TRUE),
                  File(<<"views", "/", "home", ".", "tmpl">>, TRUE),
                  File(<<"views", "/", "readme", ".", "txt">>, TRUE),
                  File(<<"views", "/", "users", ".", "tmpl">>, TRUE) >>,
     blog  |-> << File(<<"views", "/", "draft", ".", "tmpl">>, FALSE),
                  File(<<"views", "/", "post", ".", "tmpl">>, TRUE) >>,
     x     |-> << File(<<"views", "/", "x", ".", "tmpl">>, TRUE) >>]

\* the file is below directory dir (fs.WalkDir(fsys, dir, ...))
InDir(f, dir) ==
    /\ Len(f.path) > Len(dir)
    /\ SubSeq(f.path, 1, Len(dir)) = dir
    /\ f.path[Len(dir) + 1] = Slash

\* the test of both walk callbacks: a file with the adapter's extension
Matches(f, dir, ext) == InDir(f, dir) /\ FilepathExt(f.path) = ext

\* ------------------------------------------------------------------ adapters
\* An adapter instance.  Template adapters carry their extension and own a
\* template registry (templates[id]); mocks stand for user-supplied adapters.
TemplateAdapter(id, ext) == [kind |-> "template", id |-> id, ext |-> ext]
JSONAdapter == [kind |-> "json", id |-> 0, ext |-> <<>>]
MockAdapter(id) == [kind |-> "mock", id |-> id, ext |-> <<>>]
Mocks == {MockAdapter(1), MockAdapter(2)}

\* TemplateAdapter.loadPartials: every matching file below partials/ is
\* parsed into the base template; the first parse error aborts
LoadPartialsOK(d, ext) ==
    \A i \in 1..Len(d) : Matches(d[i], PartialsDir, ext) => d[i].good

\* A page key that keeps the file extension: the C19 property has to tell
\* it from the real one.
PageNameKeepsExt(fsID, path) ==
    IF fsID # RootFSID THEN fsID \o <<Colon>> \o path ELSE path

\* A page key that never carries the source id: the C24 property has to tell
\* it from the real one.
PageNameNoPrefix(fsID, path) == TrimSuffix(path, FilepathExt(path))

\* the key Init registers a page under: filepath.Rel("", path) leaves the
\* clean relative path of the walk as it is; the extension is trimmed; the
\* source id prefixes the key of a non-root source
PageName(fsID, path) ==
    LET relPath == path
        pageName == TrimSuffix(relPath, FilepathExt(relPath))
    IN  IF fsID # RootFSID THEN fsID \o <<Colon>> \o pageName ELSE pageName

\* the next page file of the views walk at or after position pos, 0 if none
NextPage(d, ext, pos) ==
    IF \E i \in pos..Len(d) : Matches(d[i], ViewsDir, ext)
    THEN CHOOSE i \in pos..Len(d) :
            /\ Matches(d[i], ViewsDir, ext)
            /\ \A j \in pos..(i - 1) : ~Matches(d[j], ViewsDir, ext)
    ELSE 0

\* a.viewsPath(dir, name): "views/" + the parts joined by "/"
ViewsPath(dir, name) == ViewsDir \o <<Slash>> \o dir \o <<Slash>> \o name

\* the registry a successful Init leaves: one entry per matching file below
\* views/, keyed by its page name
RegistryOf(d, ext) ==
    LET idx == {i \in 1..Len(d) : Matches(d[i], ViewsDir, ext)}
        keys == {PageName(RootFSID, d[i].path) : i \in idx}
    IN  [k \in keys |->
            [fs |-> RootFSID,
             file |-> (CHOOSE i \in idx : PageName(RootFSID, d[i].path) = k)]]

InitSucceeds(d, ext) ==
    /\ LoadPartialsOK(d, ext)
    /\ \A i \in 1..Len(d) : Matches(d[i], ViewsDir, ext) => d[i].good

\* --------------------------------------- TemplateAdapter.Init, all sources
\* fs.WalkDir(fsys, ViewsDir, processDirectory) of the source fsID, from
\* position pos of its walk on: every matching file is parsed and stored
\* under its page name (a.templates[pageName] = tmpl), the first parse error
\* ends the walk and Init
RECURSIVE ProcessDirectory(_, _, _, _, _)
ProcessDirectory(fsID, d, ext, pos, reg) ==
    LET i == NextPage(d, ext, pos)
    IN  IF i = 0 THEN [templates |-> reg, err |-> FALSE]
        ELSE IF ~d[i].good THEN [templates |-> reg, err |-> TRUE]
        ELSE ProcessDirectory(fsID, d, ext, i + 1,
                 MapSet(reg, PageName(fsID, d[i].path),
                        [fs |-> fsID, file |-> i]))

\* `for fsID, fsys := range a.fileSystemMap`, in the order the range takes
RECURSIVE RangeFileSystems(_, _, _, _, _)
RangeFileSystems(fss, order, ext, n, reg) ==
    IF n > Len(order) THEN [templates |-> reg, err |-> FALSE]
    ELSE LET r == ProcessDirectory(order[n], fss[order[n]], ext, 1, reg)
         IN  IF r.err THEN r
             ELSE RangeFileSystems(fss, order, ext, n + 1, r.templates)

\* TemplateAdapter.Init on the sources fss (a.fileSystemMap, by source id):
\* the cache is reset, the partials of every source are loaded, the views of
\* every source are registered; the map it leaves and its error
TemplateInit(fss, order, ext) ==
    IF \E id \in DOMAIN fss : ~LoadPartialsOK(fss[id], ext)
    THEN [templates |-> EmptyMap, err |-> TRUE]
    ELSE RangeFileSystems(fss, order, ext, 1, EmptyMap)

\* ------------------------------------------------------------ funcs.FuncMap
\* the package-level table, by function name (two of its entries)
DefaultFuncMap ==
    [n \in {"upper", "yesno"} |->
        IF n = "upper" THEN "strings.ToUpper" ELSE "funcs.YesNo"]

\* ------------------------------------------------- TemplateAdapter.Render
\* w.Header().Set(key, value) for every custom header of the Response
HeadersSetAll(w, hs) ==
    IF w.status # 0 THEN w
    ELSE [w EXCEPT !.headers =
            [k \in DOMAIN w.headers \cup DOMAIN hs |->
                IF k \in DOMAIN hs THEN hs[k] ELSE w.headers[k]]]

\* handleError: http.Error with the error text and status 500
HandleError(w, msg) == HttpError(w, msg, StatusInternalServerError)

\* A getTemplate that does not consult the page registry: the C9 property
\* has to tell it from the real one.
GetTemplateErrSkipsLookup(reg, ext, d, resp) ==
    LET layoutPath == LayoutsDir \o <<Slash>> \o resp.layout \o ext
    IN  IF \E i \in 1..Len(d) : d[i].path = layoutPath /\ d[i].good
        THEN <<>>
        ELSE <<"error parsing layout: ">> \o layoutPath

\* getTemplate: "" when the page is cached and its layout parses, else the
\* error.  The cached entry is cloned before the layout is parsed into it (a
\* cached entry is never executed, so Clone does not fail).
GetTemplateErr(reg, ext, d, resp) ==
    LET layoutPath == LayoutsDir \o <<Slash>> \o resp.layout \o ext
    IN  IF resp.path \notin DOMAIN reg
        THEN <<"template not found: ">> \o resp.path
        ELSE IF \E i \in 1..Len(d) : d[i].path = layoutPath /\ d[i].good
             THEN <<>>
             ELSE <<"error parsing layout: ">> \o layoutPath

\* An execTemplate without the buffer: headers and status go out first and
\* the template runs straight into the ResponseWriter, so a failing template
\* leaves them and a partial page behind.  The C10 property has to tell it
\* from the real one.
ExecTemplateUnbuffered(w, resp, execOk) ==
    LET w1 == HeadersSetAll(w, resp.headers)
    IN  IF ~ValidStatus(resp.status)
        THEN [w |-> w1, panicked |-> TRUE]
        ELSE LET w2 == Write(WriteHeader(w1, resp.status),
                             PageChunk(resp.path, resp.layout))
             IN  IF execOk THEN [w |-> w2, panicked |-> FALSE]
                 ELSE [w |-> HandleError(w2, <<"error executing template: ">>),
                       panicked |-> FALSE]

\* execTemplate: the template runs into a buffer; on an execution error the
\* error text goes out with status 500 (by http.Error on both branches of
\* the "server-error" test); otherwise the custom headers, the status code
\* and the buffer are written, in this order
ExecTemplate(w, resp, execOk) ==
    IF ~execOk
    THEN LET path == ViewsPath(SystemDir, <<"server-error">>)
         IN  IF resp.path = path
             THEN [w |-> HttpError(w, <<"error executing template: ">>,
                                   StatusInternalServerError),
                   panicked |-> FALSE]
             ELSE [w |-> HandleError(w, <<"error executing template: ">>),
                   panicked |-> FALSE]
    ELSE LET w1 == HeadersSetAll(w, resp.headers)
         IN  IF ~ValidStatus(resp.status)
             THEN [w |-> w1, panicked |-> TRUE]
             ELSE [w |-> Write(WriteHeader(w1, resp.status),
                               PageChunk(resp.path, resp.layout)),
                   panicked |-> FALSE]

\* A getTemplate that parses the layout into the cached entry itself: the
\* C25 property has to tell it from the real one.
RegistryAfterGetNoClone(reg, resp) ==
    IF resp.path \in DOMAIN reg
    THEN [reg EXCEPT ![resp.path] =
            [fs |-> @.fs, file |-> @.file, layout |-> resp.layout]]
    ELSE reg

\* a.templates after getTemplate: the entry found is cloned (pageTmpl.Clone())
\* and the layout is parsed into the clone, the map is only read
RegistryAfterGet(reg, resp) == reg

\* TemplateAdapter.Render; tried lists the paths Render was entered with
\* (execTemplate and handleError never call back into a renderer)
TemplateRender(reg, ext, d, w, resp, execOk) ==
    LET err == GetTemplateErr(reg, ext, d, resp)
    IN  IF err # <<>>
        THEN [w |-> HandleError(w, err), panicked |-> FALSE, tried |-> <<resp.path>>]
        ELSE LET e == ExecTemplate(w, resp, execOk)
             IN  [w |-> e.w, panicked |-> e.panicked, tried |-> <<resp.path>>]

\* ------------------------------------------ TemplateAdapter error pages
\* the six error-page renderers, by the name of their page below
\* views/system
ErrorPages == {"401", "403", "404", "405", "500", "503"}

\* the status each renderer answers with when it has no page
ErrorStatus(kind) ==
    CASE kind = "401" -> 401
      [] kind = "403" -> 403
      [] kind = "404" -> 404
      [] kind = "405" -> 405
      [] kind = "500" -> 500
      [] kind = "503" -> 503

\* the text of the plain answer of the five renderers without an error value
ErrorText(kind) ==
    CASE kind = "401" -> <<"Unauthorized">>
      [] kind = "403" -> <<"Forbidden">>
      [] kind = "404" -> <<"Not Found">>
      [] kind = "405" -> <<"Method Not Allowed">>
      [] kind = "503" -> <<"Maintenance">>

\* Response.StatusError()
RespStatusError(resp) == RespStatus(resp, StatusInternalServerError)

\* Error-page renderers whose fallback always answers 500: the C12 property
\* has to tell them from the real ones.
TemplateRenderErrorAlways500(reg, ext, d, w, resp, kind, errMsg, execOk) ==
    LET path == ViewsPath(SystemDir, <<kind>>)
        r1 == IF kind = "500" THEN RespStatusError(RespPath(resp, path))
              ELSE RespPath(resp, path)
    IN  IF path \in DOMAIN reg
        THEN TemplateRender(reg, ext, d, w, r1, execOk)
        ELSE [w |-> HttpError(w, IF kind = "500" THEN errMsg ELSE ErrorText(kind),
                              StatusInternalServerError),
              panicked |-> FALSE, tried |-> <<>>]

\* RenderForbidden, RenderMaintenance, RenderMethodNotAllowed, RenderNotFound,
\* RenderUnauthorized and RenderSystemError: when the page is cached, Render
\* runs with the given Response pointed at it (RenderSystemError also sets
\* the status 500); otherwise http.Error answers, with the fixed text or,
\* for RenderSystemError, with the text of the error
TemplateRenderError(reg, ext, d, w, resp, kind, errMsg, execOk) ==
    LET path == ViewsPath(SystemDir, <<kind>>)
        r1 == IF kind = "500" THEN RespStatusError(RespPath(resp, path))
              ELSE RespPath(resp, path)
    IN  IF path \in DOMAIN reg
        THEN TemplateRender(reg, ext, d, w, r1, execOk)
        ELSE [w |-> HttpError(w, IF kind = "500" THEN errMsg ELSE ErrorText(kind),
                              ErrorStatus(kind)),
              panicked |-> FALSE, tried |-> <<>>]

\* ------------------------------------------------------------ JSON helpers
Envelope(status, message, data, code) ==
    [status |-> status, message |-> message, data |-> data, code |-> code]

\* A JSONWithHeaders that copies the headers before it marshals: the C16
\* property has to tell it from the real one.
JSONWithHeadersEager(w, status, data, headers, marshalOk) ==
    LET w1 == HeadersSetAll(w, headers)
        w2 == HeaderSet(w1, "Content-Type", <<"application/json; charset=UTF-8">>)
    IN  IF ~marshalOk
        THEN [w |-> w2, err |-> TRUE, panicked |-> FALSE]
        ELSE IF ~ValidStatus(status)
             THEN [w |-> w2, err |-> FALSE, panicked |-> TRUE]
             ELSE [w |-> Write(WriteHeader(w2, status), JSONChunk(data)),
                   err |-> FALSE, panicked |-> FALSE]

\* JSONWithHeaders: nothing is written when marshalling fails; otherwise the
\* given headers are copied, Content-Type is set, then status and body
JSONWithHeaders(w, status, data, headers, marshalOk) ==
    IF ~marshalOk
    THEN [w |-> w, err |-> TRUE, panicked |-> FALSE]
    ELSE LET w1 == HeadersSetAll(w, headers)
             w2 == HeaderSet(w1, "Content-Type", <<"application/json; charset=UTF-8">>)
         IN  IF ~ValidStatus(status)
             THEN [w |-> w2, err |-> FALSE, panicked |-> TRUE]
             ELSE [w |-> Write(WriteHeader(w2, status), JSONChunk(data)),
                   err |-> FALSE, panicked |-> FALSE]

JSONSuccessWithStatus(w, status, data, headers, marshalOk) ==
    JSONWithHeaders(w, status, Envelope("success", "Success", data, status),
                    headers, marshalOk)

JSONFailure(w, data, message, status, headers, marshalOk) ==
    JSONWithHeaders(w, status, Envelope("fail", message, data, status),
                    headers, marshalOk)

\* an envelope of strings and a number always marshals
JSONError(w, message, status) ==
    JSONWithHeaders(w, status, Envelope("error", message, "null", status),
                    EmptyMap, TRUE)

\* JSONAdapter.RenderSystemError
JSONRenderSystemError(w, message) ==
    LET e == JSONError(w, message, StatusInternalServerError)
    IN  IF e.err
        THEN [w |-> HttpError(e.w, <<"marshal error">>, StatusInternalServerError),
              panicked |-> FALSE]
        ELSE [w |-> e.w, panicked |-> e.panicked]

\* A JSONAdapter.Render that routes on the status before defaulting it and
\* leaves an unset status unset: the C14 property has to tell it from the
\* real one.
JSONRenderNoDefault(w, resp, marshalOk) ==
    LET r == IF resp.status > 299
             THEN JSONFailure(w, "pageData", "Failure", resp.status,
                              resp.headers, marshalOk)
             ELSE JSONSuccessWithStatus(w, resp.status, "pageData",
                                        resp.headers, marshalOk)
        out == IF r.err THEN JSONRenderSystemError(r.w, "marshal error")
               ELSE [w |-> r.w, panicked |-> r.panicked]
    IN  [w |-> out.w, panicked |-> out.panicked, resp |-> resp]

\* A JSONAdapter.Render that routes every status above 200 to the "fail"
\* envelope: the C15 property has to tell it from the real one.
JSONRenderFailAbove200(w, resp, marshalOk) ==
    LET resp1 == IF resp.status = 0 THEN RespStatus(resp, StatusOK) ELSE resp
        r == IF resp1.status > 200
             THEN JSONFailure(w, "pageData", "Failure", resp1.status,
                              resp1.headers, marshalOk)
             ELSE JSONSuccessWithStatus(w, resp1.status, "pageData",
                                        resp1.headers, marshalOk)
        out == IF r.err THEN JSONRenderSystemError(r.w, "marshal error")
               ELSE [w |-> r.w, panicked |-> r.panicked]
    IN  [w |-> out.w, panicked |-> out.panicked, resp |-> resp1]

\* JSONAdapter.Render: an unset status becomes 200 (in the Response too);
\* above 299 the "fail" envelope, else the "success" envelope; a marshal
\* error goes to RenderSystemError
JSONRender(w, resp, marshalOk) ==
    LET resp1 == IF resp.status = 0 THEN RespStatus(resp, StatusOK) ELSE resp
        r == IF resp1.status > 299
             THEN JSONFailure(w, "pageData", "Failure", resp1.status,
                              resp1.headers, marshalOk)
             ELSE JSONSuccessWithStatus(w, resp1.status, "pageData",
                                        resp1.headers, marshalOk)
        out == IF r.err THEN JSONRenderSystemError(r.w, "marshal error")
               ELSE [w |-> r.w, panicked |-> r.panicked]
    IN  [w |-> out.w, panicked |-> out.panicked, resp |-> resp1]

\* the messages of the JSON adapter's five fixed error renderers
JSONErrorText(kind) ==
    CASE kind = "401" -> "Unauthorized"
      [] kind = "403" -> "Forbidden"
      [] kind = "404" -> "Not found"
      [] kind = "405" -> "Method not allowed"
      [] kind = "503" -> "Maintenance"

\* JSONAdapter.RenderForbidden, ... RenderUnauthorized: the "fail" envelope
\* with nil data (which always marshals) and the fixed status, whatever the
\* Response is; RenderSystemError: the "error" envelope with the error text
JSONRenderError(w, kind, errMsg) ==
    IF kind = "500" THEN JSONRenderSystemError(w, errMsg)
    ELSE LET r == JSONFailure(w, "null", JSONErrorText(kind), ErrorStatus(kind),
                              EmptyMap, TRUE)
         IN  IF r.err
             THEN [w |-> HttpError(r.w, <<"marshal error">>, StatusInternalServerError),
                   panicked |-> FALSE]
             ELSE [w |-> r.w, panicked |-> r.panicked]

\* ------------------------------------------------------------------ facade
BaseLayout == <<"base">>
NoAdapter == [kind |-> "none", id |-> 0, ext |-> <<>>]
JSONContentType == <<"application/json">>

\* HyperView.Render, first part: the extension is what follows the last "."
\* of the template path (the "." included), and the path is cut there
RenderExt(resp) ==
    LET idx == LastIndex(resp.path, Dot)
    IN  IF idx # 0 THEN SliceFrom(resp.path, idx) ELSE <<>>

\* A Render that cuts the path at its first "." instead of its last: the C4
\* property has to tell it from the real one.
RenderStripFirstDot(resp) ==
    LET dots == {i \in 1..Len(resp.path) : resp.path[i] = Dot}
    IN  IF dots # {}
        THEN RespPath(resp, SliceTo(resp.path,
                                    CHOOSE i \in dots : \A j \in dots : i <= j))
        ELSE resp

\* A Render that reads the extension and leaves the path of the Response as
\* it is: the C26 property has to tell it from the real one.
RenderStripKeepsPath(resp) == resp

RenderStrip(resp) ==
    LET idx == LastIndex(resp.path, Dot)
    IN  IF idx # 0 THEN RespPath(resp, SliceTo(resp.path, idx)) ELSE resp

\* A Render that keeps the "." in the adapter key: the C1 property has to
\* tell it from the real one.
RenderKeyKeepsDot(resp) ==
    LET ext == RenderExt(resp)
    IN  IF RespHeaderGet(resp, "Content-Type") = JSONContentType THEN JSON
        ELSE IF ext = <<>> \/ ext = <<Dot, "html">> THEN HTML
        ELSE ext

\* A Render that looks at the extension before the Content-Type header: the
\* C3 property has to tell it from the real one.
RenderKeyExtFirst(resp) ==
    LET ext == RenderExt(resp)
    IN  IF ext = <<Dot, "html">> THEN HTML
        ELSE IF ext # <<>> THEN Tail(ext)
        ELSE IF RespHeaderGet(resp, "Content-Type") = JSONContentType THEN JSON
        ELSE HTML

\* HyperView.Render, second part: the adapter key handed to RenderAs
RenderKey(resp) ==
    LET ext == RenderExt(resp)
    IN  IF RespHeaderGet(resp, "Content-Type") = JSONContentType THEN JSON
        ELSE IF ext = <<>> \/ ext = <<Dot, "html">> THEN HTML
        ELSE Tail(ext)

\* HyperView.Adapter: the map lookup under the read lock
Adapter(ads, name) ==
    IF name \in DOMAIN ads
    THEN [adapter |-> ads[name], ok |-> TRUE]
    ELSE [adapter |-> NoAdapter, ok |-> FALSE]

\* An adapterFor that falls back to the html adapter for an unknown key: the
\* C2 property has to tell it from the real one.
AdapterForFallsBack(ads, w, key) ==
    LET k == IF key = <<>> \/ key \notin DOMAIN ads THEN HTML ELSE key
        got == Adapter(ads, k)
    IN  IF ~got.ok
        THEN [ok |-> FALSE, adapter |-> NoAdapter,
              w |-> HttpError(w, <<"Adapter not found">>, StatusInternalServerError)]
        ELSE [ok |-> TRUE, adapter |-> got.adapter, w |-> w]

\* HyperView.adapterFor: the empty key means "html"; a missing adapter is
\* answered with 500 "Adapter not found"
AdapterFor(ads, w, key) ==
    LET k == IF key = <<>> THEN HTML ELSE key
        got == Adapter(ads, k)
    IN  IF ~got.ok
        THEN [ok |-> FALSE, adapter |-> NoAdapter,
              w |-> HttpError(w, <<"Adapter not found">>, StatusInternalServerError)]
        ELSE [ok |-> TRUE, adapter |-> got.adapter, w |-> w]

\* HyperView.RenderAs, up to the call of adapter.Render: the base layout is
\* set when the Response has none
RenderAsResp(resp) ==
    IF resp.layout = <<>> THEN RespLayout(resp, BaseLayout) ELSE resp

\* A RegisterAdapter that does not store the adapter ahead of its Init: the
\* C27 property has to tell it from the real one.
StoreAdapterNotAhead(ads, name, adapter) == ads

\* A RegisterAdapter that keeps the adapter a name already has: the C5
\* property has to tell it from the real one.
StoreAdapterKeepsFirst(ads, name, adapter) ==
    IF name \in DOMAIN ads THEN ads ELSE MapSet(ads, name, adapter)

\* HyperView.NewSystemResponse() with the status an error-page call of the
\* facade gives it: the system layout ("base") and 401 ... 503
SystemLayout == <<"base">>
SystemResponse(kind) ==
    RespStatus(RespLayout(NewResponse, SystemLayout), ErrorStatus(kind))

\* HyperView.RegisterAdapter: s.adapters[name] = adapter
StoreAdapter(ads, name, adapter) == MapSet(ads, name, adapter)

\* ----------------------------------------------------------------- redirect
\* A request as Redirect reads it: the HX-Request, HX-Boosted and
\* X-Requested-With headers, the method and the URL path.
Request(hx, boosted, xhr, method, path) ==
    [hx |-> hx, boosted |-> boosted, xhr |-> xhr, method |-> method, path |-> path]
NoRequest == Request(FALSE, FALSE, FALSE, "GET", <<Slash>>)

\* An IsHtmxRequest that does not look at HX-Boosted: the C22 property has
\* to tell it from the real one.
IsHtmxRequestIgnoresBoosted(r) == r.hx

\* htmx.IsHtmxRequest: HX-Request is set and HX-Boosted is not
IsHtmxRequest(r) == r.hx /\ ~r.boosted
\* htmx.IsBoostedRequest: HX-Boosted is set
IsBoostedRequest(r) == r.boosted
\* htmx.IsAnyHtmxRequest: HX-Request or HX-Boosted is set
IsAnyHtmxRequest(r) == r.hx \/ r.boosted
\* request.IsXMLHttpRequest: X-Requested-With is XMLHttpRequest
IsXMLHttpRequest(r) == r.xhr

\* HyperView.HxRedirect
HxRedirect(w, url) ==
    Write(WriteHeader(HeaderSet(w, "HX-Redirect", url), StatusSeeOther),
          TextChunk(<<"redirecting...">>))

\* path.Clean of a rooted path: "." and empty elements go, ".." takes the
\* element before it (none at the root) with it
RECURSIVE CleanSegs(_, _)
CleanSegs(toks, stack) ==
    IF toks = <<>> THEN stack
    ELSE LET t == Head(toks)
         IN  IF t = Slash \/ t = Dot THEN CleanSegs(Tail(toks), stack)
             ELSE IF t = ".."
                  THEN CleanSegs(Tail(toks),
                                 IF stack = <<>> THEN stack
                                 ELSE SubSeq(stack, 1, Len(stack) - 1))
                  ELSE CleanSegs(Tail(toks), Append(stack, t))

RECURSIVE JoinSegs(_)
JoinSegs(segs) ==
    IF segs = <<>> THEN <<>>
    ELSE IF Len(segs) = 1 THEN segs
    ELSE <<Head(segs), Slash>> \o JoinSegs(Tail(segs))

PathClean(p) == <<Slash>> \o JoinSegs(CleanSegs(p, <<>>))

HasSuffixSlash(p) == p # <<>> /\ p[Len(p)] = Slash
URLHasScheme(url) == url # <<>> /\ url[1] \in {"http:", "https:"}

\* http.Redirect: a URL without scheme and host is made absolute against
\* the directory of the request path and cleaned (a trailing slash is kept);
\* then Location, for GET and HEAD a text/html Content-Type, the status,
\* and for GET a short HTML body
RedirectLocation(r, url) ==
    IF URLHasScheme(url) THEN url
    ELSE LET oldpath == IF r.path = <<>> THEN <<Slash>> ELSE r.path
             olddir == SubSeq(oldpath, 1, LastIndex(oldpath, Slash))
             u1 == IF url = <<>> \/ url[1] # Slash THEN olddir \o url ELSE url
             u2 == PathClean(u1)
         IN  IF HasSuffixSlash(u1) /\ ~HasSuffixSlash(u2) THEN u2 \o <<Slash>> ELSE u2

HttpRedirect(w, r, url, code) ==
    LET loc == RedirectLocation(r, url)
        hadCT == "Content-Type" \in DOMAIN w.headers
        w1 == HeaderSet(w, "Location", loc)
        w2 == IF ~hadCT /\ r.method \in {"GET", "HEAD"}
              THEN HeaderSet(w1, "Content-Type", <<"text/html; charset=utf-8">>)
              ELSE w1
        w3 == WriteHeader(w2, code)
    IN  IF ~hadCT /\ r.method = "GET"
        THEN Write(w3, TextChunk(<<"<a href=\"">> \o loc \o <<"\">Found</a>.", "\n">>))
        ELSE w3

\* A Redirect that takes every request carrying HX-Request for an HTMX
\* request, boosted or not: the C29 property has to tell it from the real one.
RedirectBoostedAsHtmx(w, r, url) ==
    IF r.hx THEN HxRedirect(w, url)
    ELSE IF IsXMLHttpRequest(r)
    THEN Write(WriteHeader(HeaderSet(w, "Content-Type", JSONContentType), StatusOK),
               JSONChunk([status |-> "redirect", message |-> "redirecting...",
                          url |-> url]))
    ELSE HttpRedirect(w, r, url, StatusFound)

\* A Redirect that tests for XMLHttpRequest before HTMX: the C8 property has
\* to tell it from the real one.
RedirectXhrFirst(w, r, url) ==
    IF IsXMLHttpRequest(r)
    THEN Write(WriteHeader(HeaderSet(w, "Content-Type", JSONContentType), StatusOK),
               JSONChunk([status |-> "redirect", message |-> "redirecting...",
                          url |-> url]))
    ELSE IF IsHtmxRequest(r) THEN HxRedirect(w, url)
    ELSE HttpRedirect(w, r, url, StatusFound)

\* HyperView.Redirect
RedirectResponse(w, r, url) ==
    IF IsHtmxRequest(r) THEN HxRedirect(w, url)
    ELSE IF IsXMLHttpRequest(r)
    THEN Write(WriteHeader(HeaderSet(w, "Content-Type", JSONContentType), StatusOK),
               JSONChunk([status |-> "redirect", message |-> "redirecting...",
                          url |-> url]))
    ELSE HttpRedirect(w, r, url, StatusFound)

RedirectURLs ==
    { <<"https:", "/", "/", "example.com">>,
      <<"/", "login">>,
      <<"next">>,
      <<"..", "/", "next">>,
      <<"/", "a", "/", "..", "/", "b">>,
      <<"/", "a", "/", ".", "/", "b">> }
Requests ==
    { Request(hx, b, x, m, p) :
        hx \in BOOLEAN, b \in BOOLEAN, x \in BOOLEAN, m \in {"GET", "POST"},
        p \in { <<"/">>, <<"/", "admin", "/", "users">> } }

\* ------------------------------------------------------- template functions
\* strings.TrimSpace(s) == "": s holds white space only
TrimSpaceEmpty(s) == \A i \in 1..Len(s) : s[i] = " "

\* strings.HasSuffix(s, c) for a suffix c of one byte
HasSuffixByte(s, c) == Len(s) > 0 /\ s[Len(s)] = c

\* funcs.Srcset, the loop over the widths from the i-th on.  Without a
\* period strings.LastIndex is -1 and src[-1:] panics (slice bounds out of
\* range).
RECURSIVE SrcsetLoop(_, _, _, _)
SrcsetLoop(src, widths, i, srcset) ==
    IF i > Len(widths) THEN [ret |-> srcset, panicked |-> FALSE]
    ELSE LET sep == IF i > 1 THEN <<", ">> ELSE <<>>
             idx == LastIndex(src, Dot)
             w == IF ~HasSuffixByte(widths[i], "w") /\ ~HasSuffixByte(widths[i], "x")
                  THEN widths[i] \o <<"w">>
                  ELSE widths[i]
         IN  IF idx = 0 THEN [ret |-> <<>>, panicked |-> TRUE]
             ELSE SrcsetLoop(src, widths, i + 1,
                             srcset \o sep \o SliceTo(src, idx) \o <<"-">> \o w
                                    \o SliceFrom(src, idx))

\* funcs.Srcset(src, widths...)
Srcset(src, widths) ==
    IF TrimSpaceEmpty(src) THEN [ret |-> <<>>, panicked |-> FALSE]
    ELSE SrcsetLoop(src, widths, 1, <<>>)

\* the src and widths arguments given to Srcset
SrcsetSrcs ==
    { <<>>, <<" ">>,
      <<"/", "foo", "/", "example", ".", "webp">>,
      <<"/", "example", ".", "jpg">>,
      <<"a", ".", "b", ".", "png">>,
      <<".", "hidden">>,
      <<"/", "img", "/", "noext">> }
SrcsetWidths == { <<"100">>, <<"100", "w">>, <<"2", "x">> }
SrcsetWidthLists ==
    UNION { [1..n -> SrcsetWidths] : n \in 0..MaxWidths }

\* ------------------------------------------------------------------- inputs
RegNames == {HTML, JSON, <<"pdf">>}
Admins == {"a1", "a2"}

RenderPaths ==
    { <<"views", "/", "home">>,
      <<"views", "/", "home", ".", "html">>,
      <<"views", "/", "home", ".", "json">>,
      <<"views", "/", "home", ".", "pdf">>,
      <<"views", "/", "home", ".">>,
      <<"views", "/", "nope">>,
      <<"views", "/", "home", ".", "v2", ".", "json">>,
      <<"v", ".", "1", "/", "home">> }
RespHeaderSets ==
    { EmptyMap,
      MapSet(EmptyMap, "Content-Type", JSONContentType),
      MapSet(EmptyMap, "X-Trace", <<"abc">>),
      MapSet(MapSet(EmptyMap, "Content-Type", JSONContentType), "X-Trace", <<"abc">>) }
RespStatuses == {0, 201, 404}
RespLayouts == {<<>>, <<"wide">>}
Responses ==
    { [path |-> p, layout |-> l, status |-> c, headers |-> h] :
        p \in RenderPaths, l \in RespLayouts, c \in RespStatuses, h \in RespHeaderSets }

\* the Responses handed to the adapters' error-page renderers directly
PageResponses ==
    { [path |-> <<>>, layout |-> BaseLayout, status |-> c, headers |-> h] :
        c \in {0, 200, 404},
        h \in {EmptyMap, MapSet(EmptyMap, "X-Trace", <<"abc">>)} }
\* the Responses handed to JSONAdapter.Render directly
JSONStatuses == {0, 50, 201, 302, 404, 1000}
JSONResponses ==
    { [path |-> <<"views", "/", "home">>, layout |-> <<>>, status |-> c,
       headers |-> h] :
        c \in JSONStatuses,
        h \in {EmptyMap, MapSet(EmptyMap, "X-Trace", <<"abc">>)} }
\* the texts of the errors handed to RenderSystemError
ErrMsgs == {"boom", "Internal Server Error"}

\* the Responses that are rendered twice
TwiceResponses ==
    { [path |-> p, layout |-> <<>>, status |-> 200, headers |-> h] :
        p \in { <<"x", ".", "json">>, <<"x">>, <<"views", "/", "home", ".", "html">>,
                <<"views", "/", "home", ".", "v2", ".", "json">>,
                <<"v", ".", "1", "/", "home">> },
        h \in { EmptyMap, MapSet(EmptyMap, "Content-Type", JSONContentType) } }

\* the Responses rendered next to a Reinit
ReinitResponses ==
    { [path |-> p, layout |-> <<>>, status |-> 200, headers |-> EmptyMap] :
        p \in { <<"views", "/", "home">>, <<"views", "/", "system", "/", "500">>,
                <<"views", "/", "nope">>, <<"views", "/", "about", ".", "pdf">> } }

\* the Responses rendered by template adapters that were built directly
ViewResponses ==
    { [path |-> p, layout |-> <<"base">>, status |-> 200, headers |-> EmptyMap] :
        p \in { <<"dashboard", "/", "account">>,
                <<"views", "/", "dashboard", "/", "account">>,
                <<"views", "/", "home">>,
                <<"admin", ":", "views", "/", "users">>,
                <<"views", "/", "a", ":", "views", "/", "x">> } }

\* TemplateViewAdapterOptions of the adapters built: Extension ("" stands
\* for the default), Funcs, and FileSystemMap without its root entry
ViewAdapterOptions ==
    { [Extension |-> <<>>, Funcs |-> EmptyMap, FileSystemMap |-> EmptyMap],
      [Extension |-> TmplExt, Funcs |-> [n \in {"upper"} |-> "custom.Upper"],
       FileSystemMap |-> EmptyMap],
      [Extension |-> TmplExt, Funcs |-> [n \in {"shout"} |-> "custom.Shout"],
       FileSystemMap |-> MapSet(EmptyMap, <<"admin">>, MountedDisks.admin)],
      [Extension |-> TmplExt, Funcs |-> EmptyMap,
       FileSystemMap |-> MapSet(MapSet(EmptyMap, <<"admin">>, MountedDisks.admin),
                                <<"blog">>, MountedDisks.blog)],
      [Extension |-> TmplExt, Funcs |-> EmptyMap,
       FileSystemMap |-> MapSet(EmptyMap, <<"views", "/", "a">>, MountedDisks.x)] }

\* the options of NewHyperView: a list of WithViewAdapter(name, adapter)
Opt(n, x) == [name |-> n, adapter |-> x]
CtorOptions ==
    { <<>>, <<Opt(HTML, MockAdapter(1))>>, <<Opt(JSON, MockAdapter(1))>> }
TwiceCtorOptions ==
    { <<>>, <<Opt(JSON, JSONAdapter)>>,
      <<Opt(HTML, MockAdapter(1)), Opt(JSON, MockAdapter(2))>> }
PagesCtorOptions == { <<>>, <<Opt(JSON, JSONAdapter)>> }
RenderCtorOptions ==
    { <<>>,
      <<Opt(JSON, JSONAdapter)>>,
      <<Opt(HTML, MockAdapter(1)), Opt(JSON, MockAdapter(2))>>,
      <<Opt(JSON, MockAdapter(1)), Opt(<<"pdf">>, MockAdapter(2))>>,
      <<Opt(<<>>, MockAdapter(2)), Opt(<<"v2">>, MockAdapter(1))>>,
      <<Opt(JSON, MockAdapter(1)), Opt(JSON, JSONAdapter),
        Opt(<<"1", "/", "home">>, MockAdapter(2))>> }

\* -------------------------------------------------------------------- state
VARIABLES
    adapters,    \* HyperView.adapters: name -> adapter
    templates,   \* TemplateAdapter.templates of every template adapter, by id
    disk,        \* the mounted root file system
    mu,          \* HyperView.mu: "none" or the admin holding the write lock
    adm,         \* the administrative goroutines
    hreq,        \* the request-handling goroutine
    ctorOpt,     \* the option NewHyperView was given
    lastReg,     \* history: name -> adapter of the latest RegisterAdapter call
    nextId,      \* the next template adapter instance
    adminCalls,
    requests,
    fatal,       \* the runtime has aborted on a concurrent map access
    FuncMap,     \* funcs.FuncMap, the package-level function table
    fileSystemMap \* TemplateAdapter.fileSystemMap of every template adapter,
                 \* by id: the mounted sources other than the root

vars == <<adapters, templates, disk, mu, adm, hreq, ctorOpt, lastReg, nextId,
          adminCalls, requests, fatal, FuncMap, fileSystemMap>>

IdleAdmin ==
    [op |-> "none", pc |-> "idle", name |-> <<>>, adapter |-> NoAdapter,
     cur |-> NoAdapter, pos |-> 0, todo |-> {}, err |-> FALSE, stage |-> "none",
     raced |-> FALSE, old |-> EmptyMap, funcs |-> EmptyMap]

IdleHandler ==
    [op |-> "none", pc |-> "idle", orig |-> NewResponse, resp |-> NewResponse,
     key |-> <<>>, adapter |-> NoAdapter, w |-> NewWriter, log |-> <<>>,
     ok |-> FALSE, panicked |-> FALSE, ran |-> TRUE, req |-> NoRequest,
     url |-> <<>>, page |-> "none", errMsg |-> "", tried |-> <<>>,
     midInit |-> FALSE, args |-> <<>>, ret |-> <<>>, again |-> FALSE,
     first |-> <<>>]

\* NewHyperView: the options are applied in order (WithViewAdapter calls
\* RegisterAdapter), then the default html adapter (html/template, extension
\* ".tmpl") is registered if "html" is still free; construction fails when
\* an Init fails, so a facade exists only if none did
DefaultHTML == TemplateAdapter(0, TmplExt)

RECURSIVE ApplyOptions(_, _)
ApplyOptions(ads, opts) ==
    IF opts = <<>> THEN ads
    ELSE ApplyOptions(StoreAdapter(ads, Head(opts).name, Head(opts).adapter), Tail(opts))

NewHyperView(opts) ==
    LET a0 == ApplyOptions(EmptyMap, opts)
    IN  IF HTML \in DOMAIN a0 THEN a0 ELSE StoreAdapter(a0, HTML, DefaultHTML)

InitOn(options, disks) ==
    /\ disk \in disks
    /\ ctorOpt \in options
    /\ adapters = NewHyperView(ctorOpt)
    /\ (DefaultHTML \in {adapters[n] : n \in DOMAIN adapters} => InitSucceeds(disk, TmplExt))
    /\ templates = IF DefaultHTML \in {adapters[n] : n \in DOMAIN adapters}
                   THEN MapSet(EmptyMap, 0, RegistryOf(disk, TmplExt))
                   ELSE EmptyMap
    /\ lastReg = adapters
    /\ mu = "none"
    /\ adm = [a \in Admins |-> IdleAdmin]
    /\ hreq = IdleHandler
    /\ nextId = 1
    /\ adminCalls = 0
    /\ requests = 0
    /\ fatal = FALSE
    /\ FuncMap = DefaultFuncMap
    /\ fileSystemMap = EmptyMap

InitWith(options) == InitOn(options, Disks)

Init == InitWith(CtorOptions)
InitRender == InitWith(RenderCtorOptions)
InitPages == InitOn(PagesCtorOptions, PageDisks)
InitReinit == InitOn({<<>>}, {DiskSite})
InitFuncs == InitOn({<<>>}, {DiskNone})
InitTwice == InitOn(TwiceCtorOptions, Disks)
InitViews == InitOn({<<>>}, {DiskViews})

\* ------------------------------------------------------ administrative calls
CanCall(a) == ~fatal /\ adm[a].pc \in {"idle", "done"} /\ adminCalls < MaxAdminCalls

\* RegisterAdapter, entry: s.mu.Lock()
RegisterAdapterLock(a, name, x) ==
    /\ CanCall(a)
    /\ mu = "none"
    /\ mu' = a
    /\ adm' = [adm EXCEPT ![a] =
                 [IdleAdmin EXCEPT !.op = "RegisterAdapter", !.pc = "write",
                                   !.name = name, !.adapter = x]]
    /\ lastReg' = MapSet(lastReg, name, x)
    /\ adminCalls' = adminCalls + 1
    /\ UNCHANGED <<adapters, templates, disk, FuncMap, fileSystemMap, hreq, ctorOpt, nextId, requests, fatal>>

\* RegisterAdapter: s.adapters[name] = adapter
RegisterAdapterStore(a) ==
    /\ ~fatal
    /\ adm[a].pc = "write"
    /\ adapters' = StoreAdapter(adapters, adm[a].name, adm[a].adapter)
    /\ adm' = [adm EXCEPT ![a].pc = "init", ![a].cur = adm[a].adapter]
    /\ UNCHANGED <<templates, disk, FuncMap, fileSystemMap, mu, hreq, ctorOpt, lastReg, nextId,
                   adminCalls, requests, fatal>>

\* What follows the return of an adapter's Init with error err, in the call
\* the admin is in: RegisterAdapter unlocks and returns it;
\* MaybeRegisterDefaultAdapters returns on an error and else goes on to the
\* "json" check; Reinit returns on an error and else takes the next adapter
AfterInit(r, err) ==
    LET base == [r EXCEPT !.err = err, !.cur = NoAdapter, !.pos = 0,
                          !.old = EmptyMap]
    IN  CASE r.op = "RegisterAdapter" -> [base EXCEPT !.pc = "done"]
          [] r.op = "Maybe" ->
                IF err \/ r.stage = "json"
                THEN [base EXCEPT !.pc = "done"]
                ELSE [base EXCEPT !.pc = "check", !.stage = "json"]
          [] r.op = "Reinit" ->
                IF err \/ r.todo = {}
                THEN [base EXCEPT !.pc = "done", !.todo = {}]
                ELSE [base EXCEPT !.pc = "iter"]

\* the deferred s.mu.Unlock() runs when the call returns
MuAfter(r) == IF r.pc \in {"done", "check"} THEN "none" ELSE mu

\* adapter.Init() of a mock (any outcome) or of the JSON adapter (nil)
InitPlain(a) ==
    /\ ~fatal
    /\ adm[a].pc = "init"
    /\ adm[a].cur.kind \in {"mock", "json"}
    /\ \E err \in (IF adm[a].cur.kind = "mock" THEN BOOLEAN ELSE {FALSE}) :
          LET r == AfterInit(adm[a], err)
          IN  /\ adm' = [adm EXCEPT ![a] = r]
              /\ mu' = MuAfter(r)
    /\ UNCHANGED <<adapters, templates, disk, FuncMap, fileSystemMap, hreq, ctorOpt, lastReg, nextId,
                   adminCalls, requests, fatal>>

\* TemplateAdapter.Init, first part: the cache is reset and the partials are
\* loaded
InitReset(a) ==
    /\ ~fatal
    /\ adm[a].pc = "init"
    /\ adm[a].cur.kind = "template"
    /\ templates' = MapSet(templates, adm[a].cur.id, EmptyMap)
    /\ IF LoadPartialsOK(disk, adm[a].cur.ext)
       THEN /\ adm' = [adm EXCEPT ![a].pc = "walk", ![a].pos = 1,
                                  ![a].old = templates[adm[a].cur.id]]
            /\ mu' = mu
       ELSE LET r == AfterInit(adm[a], TRUE)
            IN  /\ adm' = [adm EXCEPT ![a] = r]
                /\ mu' = MuAfter(r)
    /\ UNCHANGED <<adapters, disk, FuncMap, fileSystemMap, hreq, ctorOpt, lastReg, nextId,
                   adminCalls, requests, fatal>>

\* TemplateAdapter.Init, the walk of views/: the next page file is parsed
\* and registered; a parse error aborts; after the last file Init returns nil
InitWalk(a) ==
    /\ ~fatal
    /\ adm[a].pc = "walk"
    /\ LET cur == adm[a].cur
           i == NextPage(disk, cur.ext, adm[a].pos)
       IN  IF i = 0 \/ ~disk[i].good
           THEN LET r == AfterInit(adm[a], i # 0)
                IN  /\ adm' = [adm EXCEPT ![a] = r]
                    /\ mu' = MuAfter(r)
                    /\ templates' = templates
           ELSE /\ templates' =
                     [templates EXCEPT ![cur.id] =
                         MapSet(@, PageName(RootFSID, disk[i].path),
                                [fs |-> RootFSID, file |-> i])]
                /\ IF NextPage(disk, cur.ext, i + 1) = 0
                   THEN LET r == AfterInit(adm[a], FALSE)
                        IN  /\ adm' = [adm EXCEPT ![a] = r]
                            /\ mu' = MuAfter(r)
                   ELSE /\ adm' = [adm EXCEPT ![a].pos = i + 1]
                        /\ mu' = mu
    /\ UNCHANGED <<adapters, disk, FuncMap, fileSystemMap, hreq, ctorOpt, lastReg, nextId,
                   adminCalls, requests, fatal>>

\* RegisterAdapter(name, NewTemplateViewAdapter(...)) with a new template
\* adapter for ".gtml" files: the adapter is built with an empty cache, then
\* RegisterAdapter takes the lock
RegisterTemplateAdapter(a, name) ==
    /\ CanCall(a)
    /\ mu = "none"
    /\ mu' = a
    /\ adm' = [adm EXCEPT ![a] =
                 [IdleAdmin EXCEPT !.op = "RegisterAdapter", !.pc = "write",
                                   !.name = name,
                                   !.adapter = TemplateAdapter(nextId, GtmlExt)]]
    /\ templates' = MapSet(templates, nextId, EmptyMap)
    /\ nextId' = nextId + 1
    /\ lastReg' = MapSet(lastReg, name, TemplateAdapter(nextId, GtmlExt))
    /\ adminCalls' = adminCalls + 1
    /\ UNCHANGED <<adapters, disk, FuncMap, fileSystemMap, hreq, ctorOpt, requests, fatal>>

\* Reinit, entry: s.mu.Lock(), then the range over s.adapters
ReinitLock(a) ==
    /\ CanCall(a)
    /\ mu = "none"
    /\ mu' = a
    /\ adm' = [adm EXCEPT ![a] =
                 [IdleAdmin EXCEPT !.op = "Reinit", !.pc = "iter",
                                   !.todo = DOMAIN adapters]]
    /\ adminCalls' = adminCalls + 1
    /\ UNCHANGED <<adapters, templates, disk, FuncMap, fileSystemMap, hreq, ctorOpt, lastReg, nextId,
                   requests, fatal>>

\* Reinit: the next adapter of the range (Go's map order is arbitrary)
ReinitNext(a) ==
    /\ ~fatal
    /\ adm[a].pc = "iter"
    /\ \E n \in adm[a].todo :
          adm' = [adm EXCEPT ![a].pc = "init", ![a].cur = adapters[n],
                             ![a].todo = adm[a].todo \ {n}]
    /\ UNCHANGED <<adapters, templates, disk, FuncMap, fileSystemMap, mu, hreq, ctorOpt, lastReg, nextId,
                   adminCalls, requests, fatal>>

\* MaybeRegisterDefaultAdapters, entry
MaybeCall(a) ==
    /\ CanCall(a)
    /\ adm' = [adm EXCEPT ![a] =
                 [IdleAdmin EXCEPT !.op = "Maybe", !.pc = "check", !.stage = "html"]]
    /\ adminCalls' = adminCalls + 1
    /\ UNCHANGED <<adapters, templates, disk, FuncMap, fileSystemMap, mu, hreq, ctorOpt, lastReg, nextId,
                   requests, fatal>>

\* another goroutine is about to write s.adapters
AdaptersWriteRacing(a) == \E b \in Admins \ {a} : adm[b].pc = "write"

\* MaybeRegisterDefaultAdapters: `_, ok := s.adapters[name]`, read without
\* the lock.  Next to a concurrent write of the map the read is a data race:
\* it yields either answer, or the runtime aborts.  When the name is free the
\* default adapter is built and RegisterAdapter is called.
MaybeCheck(a) ==
    /\ ~fatal
    /\ adm[a].pc = "check"
    /\ LET name == IF adm[a].stage = "html" THEN HTML ELSE JSON
           answers == IF AdaptersWriteRacing(a) THEN BOOLEAN
                      ELSE {name \in DOMAIN adapters}
           raced == adm[a].raced \/ AdaptersWriteRacing(a)
       IN  \/ /\ AdaptersWriteRacing(a)
              /\ fatal' = TRUE
              /\ UNCHANGED <<adm, templates, nextId>>
           \/ /\ TRUE \in answers
              /\ adm' = [adm EXCEPT ![a] =
                           IF adm[a].stage = "html"
                           THEN [adm[a] EXCEPT !.stage = "json", !.raced = raced]
                           ELSE [adm[a] EXCEPT !.pc = "done", !.raced = raced]]
              /\ UNCHANGED <<templates, nextId, fatal>>
           \/ /\ FALSE \in answers
              /\ IF adm[a].stage = "html"
                 THEN /\ adm' = [adm EXCEPT ![a].pc = "lock", ![a].name = HTML,
                                    ![a].raced = raced,
                                    ![a].adapter = TemplateAdapter(nextId, GtmlExt)]
                      /\ templates' = MapSet(templates, nextId, EmptyMap)
                      /\ nextId' = nextId + 1
                 ELSE /\ adm' = [adm EXCEPT ![a].pc = "lock", ![a].name = JSON,
                                    ![a].raced = raced,
                                    ![a].adapter = JSONAdapter]
                      /\ UNCHANGED <<templates, nextId>>
              /\ UNCHANGED fatal
    /\ UNCHANGED <<adapters, disk, FuncMap, fileSystemMap, mu, hreq, ctorOpt, lastReg, adminCalls, requests>>

\* MaybeRegisterDefaultAdapters: the s.mu.Lock() of its RegisterAdapter call
MaybeLock(a) ==
    /\ ~fatal
    /\ adm[a].pc = "lock"
    /\ mu = "none"
    /\ mu' = a
    /\ adm' = [adm EXCEPT ![a].pc = "write"]
    /\ lastReg' = MapSet(lastReg, adm[a].name, adm[a].adapter)
    /\ UNCHANGED <<adapters, templates, disk, FuncMap, fileSystemMap, hreq, ctorOpt, nextId,
                   adminCalls, requests, fatal>>

\* ------------------------------------------------------------ request calls
CanServe == ~fatal /\ hreq.pc \in {"idle", "done"} /\ requests < MaxRequests

\* HyperView.Render, up to the adapter lookup of RenderAs (under s.mu.RLock):
\* the extension is cut off the Response's path, the key is chosen, the
\* adapter is looked up; without an adapter the call ends with the 500
Render(resp) ==
    /\ CanServe
    /\ mu = "none"
    /\ LET key == RenderKey(resp)
           r1 == RenderStrip(resp)
           af == AdapterFor(adapters, NewWriter, key)
       IN  hreq' = [IdleHandler EXCEPT
                       !.op = "Render", !.orig = resp, !.key = key,
                       !.ok = af.ok, !.adapter = af.adapter, !.w = af.w,
                       !.resp = IF af.ok THEN RenderAsResp(r1) ELSE r1,
                       !.pc = IF af.ok THEN "render" ELSE "done"]
    /\ requests' = requests + 1
    /\ UNCHANGED <<adapters, templates, disk, FuncMap, fileSystemMap, mu, adm, ctorOpt, lastReg, nextId,
                   adminCalls, fatal>>

\* a template adapter's Init is rewriting the registry the render reads
TemplatesWriteRacing(x) ==
    \E b \in Admins : adm[b].pc \in {"init", "walk"} /\ adm[b].cur = x

\* The registries a render of adapter x can read: a.templates as it is and,
\* next to an Init that has replaced the map (an unsynchronised read of the
\* field), also the map it held before
ReadableRegistries(x) ==
    {templates[x.id]} \cup
        { adm[b].old : b \in { c \in Admins : adm[c].pc = "walk" /\ adm[c].cur = x } }

Invocation(x, resp) == [adapter |-> x, path |-> resp.path, layout |-> resp.layout]

\* RenderAs: adapter.Render(w, r, resp), outside the lock
AdapterRender ==
    /\ ~fatal
    /\ hreq.pc = "render"
    /\ LET x == hreq.adapter
           log == Append(hreq.log, Invocation(x, hreq.resp))
       IN  CASE x.kind = "mock" ->
                  /\ hreq' = [hreq EXCEPT !.pc = "done", !.log = log]
                  /\ UNCHANGED <<templates, fatal>>
             [] x.kind = "json" ->
                  /\ \E marshalOk \in BOOLEAN :
                        LET out == JSONRender(hreq.w, hreq.resp, marshalOk)
                        IN  hreq' = [hreq EXCEPT !.pc = "done", !.log = log,
                                        !.w = out.w, !.resp = out.resp,
                                        !.panicked = out.panicked,
                                        !.ran = marshalOk]
                  /\ UNCHANGED <<templates, fatal>>
             [] x.kind = "template" ->
                  \/ /\ TemplatesWriteRacing(x)
                     /\ fatal' = TRUE
                     /\ UNCHANGED <<templates, hreq>>
                  \/ /\ \E execOk \in BOOLEAN, reg \in ReadableRegistries(x) :
                           LET out == TemplateRender(reg, x.ext, disk,
                                                     hreq.w, hreq.resp, execOk)
                           IN  hreq' = [hreq EXCEPT !.pc = "done", !.log = log,
                                           !.w = out.w, !.panicked = out.panicked,
                                           !.ran = execOk, !.tried = out.tried,
                                           !.midInit = TemplatesWriteRacing(x)]
                     /\ templates' = [templates EXCEPT ![x.id] =
                                         RegistryAfterGet(@, hreq.resp)]
                     /\ UNCHANGED fatal
    /\ UNCHANGED <<adapters, disk, FuncMap, fileSystemMap, mu, adm, ctorOpt, lastReg, nextId,
                   adminCalls, requests>>

\* The handler passes the Response of its finished Render to HyperView.Render
\* once more: the call works on the Response as the first call left it
RenderAgain ==
    /\ ~fatal
    /\ hreq.op = "Render"
    /\ hreq.pc = "done"
    /\ ~hreq.again
    /\ mu = "none"
    /\ LET resp == hreq.resp
           key == RenderKey(resp)
           r1 == RenderStrip(resp)
           af == AdapterFor(adapters, NewWriter, key)
       IN  hreq' = [IdleHandler EXCEPT
                       !.op = "Render", !.orig = resp, !.key = key,
                       !.ok = af.ok, !.adapter = af.adapter, !.w = af.w,
                       !.resp = IF af.ok THEN RenderAsResp(r1) ELSE r1,
                       !.pc = IF af.ok THEN "render" ELSE "done",
                       !.again = TRUE,
                       !.first = [orig |-> hreq.orig, key |-> hreq.key,
                                  resp |-> hreq.resp]]
    /\ UNCHANGED <<adapters, templates, disk, FuncMap, fileSystemMap, mu, adm, ctorOpt, lastReg, nextId,
                   adminCalls, requests, fatal>>

\* HyperView.Adapter(name), called by a request handler
AdapterGet(name) ==
    /\ CanServe
    /\ mu = "none"
    /\ LET got == Adapter(adapters, name)
       IN  hreq' = [IdleHandler EXCEPT !.op = "Adapter", !.pc = "done", !.key = name,
                       !.ok = got.ok, !.adapter = got.adapter]
    /\ requests' = requests + 1
    /\ UNCHANGED <<adapters, templates, disk, FuncMap, fileSystemMap, mu, adm, ctorOpt, lastReg, nextId,
                   adminCalls, fatal>>

\* HyperView.Redirect(w, r, url)
Redirect(r, url) ==
    /\ CanServe
    /\ hreq' = [IdleHandler EXCEPT !.op = "Redirect", !.pc = "done", !.req = r,
                    !.url = url, !.w = RedirectResponse(NewWriter, r, url)]
    /\ requests' = requests + 1
    /\ UNCHANGED <<adapters, templates, disk, FuncMap, fileSystemMap, mu, adm, ctorOpt, lastReg, nextId,
                   adminCalls, fatal>>

\* what an adapter's error-page renderer does with the call
AdapterErrorOut(x, w, resp, kind, errMsg, execOk) ==
    CASE x.kind = "template" ->
            TemplateRenderError(templates[x.id], x.ext, disk, w, resp, kind,
                                <<errMsg>>, execOk)
      [] x.kind = "json" ->
            LET o == JSONRenderError(w, kind, errMsg)
            IN  [w |-> o.w, panicked |-> o.panicked, tried |-> <<>>]
      [] OTHER -> [w |-> w, panicked |-> FALSE, tried |-> <<>>]

\* HyperView.RenderForbiddenAs, RenderNotFoundAs, RenderUnauthorizedAs,
\* RenderMethodNotAllowedAs, RenderMaintenanceAs and RenderSystemErrorAs (the
\* calls without "As" pass "html"): adapterFor, then the adapter's renderer
\* with a new system Response carrying the status of the page
RenderErrorAs(kind, key, errMsg) ==
    /\ CanServe
    /\ mu = "none"
    /\ LET af == AdapterFor(adapters, NewWriter, key)
           resp == SystemResponse(kind)
           base == [IdleHandler EXCEPT !.op = "RenderErrorAs", !.pc = "done",
                                       !.page = kind, !.key = key, !.orig = resp,
                                       !.errMsg = errMsg, !.ok = af.ok,
                                       !.adapter = af.adapter, !.w = af.w]
       IN  IF ~af.ok THEN hreq' = base
           ELSE \E execOk \in BOOLEAN :
                   LET out == AdapterErrorOut(af.adapter, af.w, resp, kind,
                                              errMsg, execOk)
                   IN  hreq' = [base EXCEPT !.w = out.w, !.panicked = out.panicked,
                                            !.tried = out.tried, !.ran = execOk]
    /\ requests' = requests + 1
    /\ UNCHANGED <<adapters, templates, disk, FuncMap, fileSystemMap, mu, adm, ctorOpt, lastReg, nextId,
                   adminCalls, fatal>>

\* an error-page renderer of a registered built-in adapter called directly
\* (the Adapter interface is exported), with a Response of the caller
AdapterErrorPage(name, kind, resp, errMsg) ==
    /\ CanServe
    /\ mu = "none"
    /\ name \in DOMAIN adapters
    /\ adapters[name].kind \in {"template", "json"}
    /\ \E execOk \in BOOLEAN :
          LET x == adapters[name]
              out == AdapterErrorOut(x, NewWriter, resp, kind, errMsg, execOk)
          IN  hreq' = [IdleHandler EXCEPT
                          !.op = "AdapterErrorPage", !.pc = "done", !.page = kind,
                          !.key = name, !.orig = resp, !.errMsg = errMsg,
                          !.ok = TRUE, !.adapter = x, !.w = out.w,
                          !.panicked = out.panicked, !.tried = out.tried,
                          !.ran = execOk]
    /\ requests' = requests + 1
    /\ UNCHANGED <<adapters, templates, disk, FuncMap, fileSystemMap, mu, adm, ctorOpt, lastReg, nextId,
                   adminCalls, fatal>>

\* JSONAdapter.Render called directly with a Response of the caller
JSONAdapterRender(resp) ==
    /\ CanServe
    /\ \E marshalOk \in BOOLEAN :
          LET out == JSONRender(NewWriter, resp, marshalOk)
          IN  hreq' = [IdleHandler EXCEPT
                          !.op = "JSONAdapterRender", !.pc = "done", !.orig = resp,
                          !.resp = out.resp, !.ok = TRUE, !.adapter = JSONAdapter,
                          !.w = out.w, !.panicked = out.panicked,
                          !.ran = marshalOk]
    /\ requests' = requests + 1
    /\ UNCHANGED <<adapters, templates, disk, FuncMap, fileSystemMap, mu, adm, ctorOpt, lastReg, nextId,
                   adminCalls, fatal>>

\* a template or a handler calls funcs.Srcset(src, widths...)
CallSrcset(src, widths) ==
    /\ CanServe
    /\ LET out == Srcset(src, widths)
       IN  hreq' = [IdleHandler EXCEPT !.op = "Srcset", !.pc = "done",
                       !.args = <<src, widths>>, !.ret = out.ret,
                       !.panicked = out.panicked]
    /\ requests' = requests + 1
    /\ UNCHANGED <<adapters, templates, disk, FuncMap, fileSystemMap, mu, adm, ctorOpt, lastReg, nextId,
                   adminCalls, fatal>>

\* a handler asks the three HTMX predicates about its request
HXHeaders(r) ==
    /\ CanServe
    /\ hreq' = [IdleHandler EXCEPT
                    !.op = "HXHeaders", !.pc = "done", !.req = r,
                    !.ret = [htmx |-> IsHtmxRequest(r),
                             boosted |-> IsBoostedRequest(r),
                             any |-> IsAnyHtmxRequest(r)]]
    /\ requests' = requests + 1
    /\ UNCHANGED <<adapters, templates, disk, FuncMap, fileSystemMap, mu, adm, ctorOpt, lastReg, nextId,
                   adminCalls, fatal>>

\* a.funcMap of an adapter: the field is set to funcs.FuncMap, and a Go map
\* value refers to the map, so the adapter reads the package-level table
AdapterFuncMap(x) == FuncMap

\* NewTemplateViewAdapter(opts): the custom functions are stored into the
\* package-level table, the extension defaults to ".gtml", and the adapter
\* starts with an empty cache
NewTemplateViewAdapter(a, opts) ==
    /\ CanCall(a)
    /\ FuncMap' = [n \in DOMAIN FuncMap \cup DOMAIN opts.Funcs |->
                      IF n \in DOMAIN opts.Funcs THEN opts.Funcs[n]
                      ELSE FuncMap[n]]
    /\ templates' = MapSet(templates, nextId, EmptyMap)
    /\ fileSystemMap' = MapSet(fileSystemMap, nextId, opts.FileSystemMap)
    /\ adm' = [adm EXCEPT ![a] =
                 [IdleAdmin EXCEPT
                     !.op = "New", !.pc = "done", !.funcs = opts.Funcs,
                     !.adapter = TemplateAdapter(nextId,
                                     IF opts.Extension = <<>> THEN GtmlExt
                                     ELSE opts.Extension)]]
    /\ nextId' = nextId + 1
    /\ adminCalls' = adminCalls + 1
    /\ UNCHANGED <<adapters, disk, mu, hreq, ctorOpt, lastReg, requests, fatal>>

\* a.Init() of the adapter the caller has built; the range over the sources
\* takes any order (Go's map order is arbitrary)
TemplateAdapterInit(a) ==
    /\ CanCall(a)
    /\ adm[a].op \in {"New", "Init"}
    /\ LET x == adm[a].adapter
           fss == MapSet(fileSystemMap[x.id], RootFSID, disk)
       IN  \E order \in {o \in [1..Cardinality(DOMAIN fss) -> DOMAIN fss] :
                            \A i, j \in DOMAIN o : i # j => o[i] # o[j]} :
              LET r == TemplateInit(fss, order, x.ext)
              IN  /\ templates' = [templates EXCEPT ![x.id] = r.templates]
                  /\ adm' = [adm EXCEPT ![a].op = "Init", ![a].err = r.err]
    /\ adminCalls' = adminCalls + 1
    /\ UNCHANGED <<adapters, disk, FuncMap, fileSystemMap, mu, hreq, ctorOpt,
                   lastReg, nextId, requests, fatal>>

\* a.Render(w, r, resp) of a template adapter, called directly: the
\* facade's adapter or one that was built
TemplateAdapterRender(x, resp) ==
    /\ CanServe
    /\ \/ x = DefaultHTML
       \/ \E a \in Admins : adm[a].op \in {"New", "Init"} /\ adm[a].adapter = x
    /\ \E execOk \in BOOLEAN :
          LET out == TemplateRender(templates[x.id], x.ext, disk, NewWriter,
                                    resp, execOk)
          IN  hreq' = [IdleHandler EXCEPT
                          !.op = "TemplateRender", !.pc = "done",
                          !.adapter = x, !.orig = resp, !.resp = resp,
                          !.w = out.w, !.panicked = out.panicked,
                          !.ran = execOk, !.tried = out.tried]
    /\ templates' = [templates EXCEPT ![x.id] = RegistryAfterGet(@, resp)]
    /\ requests' = requests + 1
    /\ UNCHANGED <<adapters, disk, FuncMap, fileSystemMap, mu, adm, ctorOpt,
                   lastReg, nextId, adminCalls, fatal>>

\* the registry and its lock: two administrative goroutines and a handler
\* that looks adapters up
Next ==
    \/ \E a \in Admins, n \in RegNames, x \in Mocks : RegisterAdapterLock(a, n, x)
    \/ \E a \in Admins : RegisterAdapterStore(a)
    \/ \E a \in Admins : InitPlain(a)
    \/ \E a \in Admins : InitReset(a)
    \/ \E a \in Admins : InitWalk(a)
    \/ \E a \in Admins : ReinitLock(a)
    \/ \E a \in Admins : ReinitNext(a)
    \/ \E a \in Admins : MaybeCall(a)
    \/ \E a \in Admins : MaybeCheck(a)
    \/ \E a \in Admins : MaybeLock(a)
    \/ \E n \in RegNames \cup {<<"xml">>} : AdapterGet(n)

Spec == Init /\ [][Next]_vars

\* request handling on a facade built with any of the option lists
NextRender ==
    \/ \E resp \in Responses : Render(resp)
    \/ AdapterRender
    \/ \E r \in Requests, url \in RedirectURLs : Redirect(r, url)

SpecRender == InitRender /\ [][NextRender]_vars

\* the error pages and the JSON adapter, called through the facade and
\* directly
NextPages ==
    \/ \E kind \in ErrorPages, key \in {HTML, JSON}, e \in ErrMsgs :
          RenderErrorAs(kind, key, e)
    \/ \E name \in {HTML, JSON}, kind \in ErrorPages, resp \in PageResponses,
          e \in ErrMsgs : AdapterErrorPage(name, kind, resp, e)
    \/ \E resp \in JSONResponses : JSONAdapterRender(resp)

SpecPages == InitPages /\ [][NextPages]_vars

\* one administrative goroutine that registers template adapters and
\* reinitialises, next to a request handler that renders
NextReinit ==
    \/ RegisterTemplateAdapter("a1", <<"pdf">>)
    \/ RegisterAdapterStore("a1")
    \/ InitReset("a1")
    \/ InitWalk("a1")
    \/ ReinitLock("a1")
    \/ ReinitNext("a1")
    \/ \E resp \in ReinitResponses : Render(resp)
    \/ AdapterRender

SpecReinit == InitReinit /\ [][NextReinit]_vars

\* the template function Srcset and the request predicates
NextFuncs ==
    \/ \E src \in SrcsetSrcs, widths \in SrcsetWidthLists : CallSrcset(src, widths)
    \/ \E r \in Requests : HXHeaders(r)

SpecFuncs == InitFuncs /\ [][NextFuncs]_vars

\* a handler that renders a Response and then renders it again
NextTwice ==
    \/ \E resp \in TwiceResponses : Render(resp)
    \/ AdapterRender
    \/ RenderAgain

SpecTwice == InitTwice /\ [][NextTwice]_vars

\* template adapters that are built, initialised and rendered directly
NextViews ==
    \/ \E a \in Admins, opts \in ViewAdapterOptions : NewTemplateViewAdapter(a, opts)
    \/ \E a \in Admins : TemplateAdapterInit(a)
    \/ \E x \in {TemplateAdapter(i, e) : i \in 0..MaxAdminCalls,
                                        e \in {TmplExt, GtmlExt}},
          resp \in ViewResponses : TemplateAdapterRender(x, resp)

SpecViews == InitViews /\ [][NextViews]_vars

\* --------------------------------------------------------------- properties
\* the handler has returned from HyperView.Render
RenderDone == hreq.op = "Render" /\ hreq.pc = "done"

\* The extension of a template path as the documentation words it: what
\* starts at the last "." of the path, and nothing when there is no ".".
ExtensionOf(p) ==
    IF ~HasToken(p, Dot) THEN <<>>
    ELSE CHOOSE e \in {SubSeq(p, i, Len(p)) : i \in 1..Len(p)} :
            e[1] = Dot /\ ~HasToken(Tail(e), Dot)

HasJSONHeader(resp) ==
    /\ "Content-Type" \in DOMAIN resp.headers
    /\ resp.headers["Content-Type"] = JSONContentType

\* exactly one adapter Render ran during the call, and it was x's
InvokedExactly(x) == Len(hreq.log) = 1 /\ hreq.log[1].adapter = x

AnsweredAdapterNotFound ==
    /\ hreq.w.status = StatusInternalServerError
    /\ BodyContains(hreq.w, <<"Adapter not found">>)
    /\ hreq.log = <<>>

\* C1, as amended: for a Response without the JSON Content-Type header,
\* Render invokes the adapter registered under "html" when the path has no
\* extension, the extension ".html" or the bare extension "."; it invokes the
\* adapter registered under E when the extension is ".E" with E not empty and
\* E is registered.  In each of these cases exactly one adapter's Render
\* method is invoked.
C1_RenderDispatch ==
    (RenderDone /\ ~HasJSONHeader(hreq.orig)) =>
        LET e == ExtensionOf(hreq.orig.path)
        IN  /\ (e = <<>> \/ e = <<Dot>> \/ e = <<Dot, "html">>) =>
                   (HTML \in DOMAIN adapters /\ InvokedExactly(adapters[HTML]))
            /\ (Len(e) > 1 /\ Tail(e) \in DOMAIN adapters) =>
                   InvokedExactly(adapters[Tail(e)])

\* C1 witness: "views/home.pdf" went to the adapter registered under "pdf"
C1_Witness ==
    /\ RenderDone
    /\ ~HasJSONHeader(hreq.orig)
    /\ ExtensionOf(hreq.orig.path) = <<Dot, "pdf">>
    /\ <<"pdf">> \in DOMAIN adapters
    /\ InvokedExactly(adapters[<<"pdf">>])

\* C1 as the specification states it: any extension ".E" whose E is a
\* registered name selects the adapter registered under E, the empty E of a
\* path ending in "." included.
C1_Original ==
    (RenderDone /\ ~HasJSONHeader(hreq.orig)) =>
        LET e == ExtensionOf(hreq.orig.path)
        IN  /\ (e = <<>> \/ e = <<Dot, "html">>) =>
                   (HTML \in DOMAIN adapters /\ InvokedExactly(adapters[HTML]))
            /\ (e # <<>> /\ Tail(e) \in DOMAIN adapters) =>
                   InvokedExactly(adapters[Tail(e)])

\* C2, as amended: for a Response without the JSON Content-Type header whose
\* path has an extension ".E" with E not empty and not a registered name,
\* Render answers 500 "Adapter not found" and invokes no adapter.
C2_UnknownExtension ==
    (RenderDone /\ ~HasJSONHeader(hreq.orig)) =>
        LET e == ExtensionOf(hreq.orig.path)
        IN  (Len(e) > 1 /\ Tail(e) \notin DOMAIN adapters) => AnsweredAdapterNotFound

\* C2 witness: "views/home.pdf" with nothing registered under "pdf"
C2_Witness ==
    /\ RenderDone
    /\ ~HasJSONHeader(hreq.orig)
    /\ ExtensionOf(hreq.orig.path) = <<Dot, "pdf">>
    /\ <<"pdf">> \notin DOMAIN adapters
    /\ AnsweredAdapterNotFound

\* C2 as the specification states it: every path that carries an extension
\* whose name is not registered is answered with 500 "Adapter not found".
C2_Original ==
    (RenderDone /\ ~HasJSONHeader(hreq.orig)) =>
        LET e == ExtensionOf(hreq.orig.path)
        IN  (e # <<>> /\ Tail(e) \notin DOMAIN adapters) => AnsweredAdapterNotFound

\* C3: a Response whose Content-Type header is exactly "application/json" is
\* dispatched under the key "json" whatever the extension of its path is: the
\* adapter registered under "json" is the one invoked, and without one the
\* answer is 500 "Adapter not found".
C3_JSONHeaderFirst ==
    (RenderDone /\ HasJSONHeader(hreq.orig)) =>
        /\ hreq.key = JSON
        /\ IF JSON \in DOMAIN adapters
           THEN InvokedExactly(adapters[JSON])
           ELSE AnsweredAdapterNotFound

\* C3 witness: "views/home.pdf" with the header and adapters under both
\* "json" and "pdf" went to the "json" one
C3_Witness ==
    /\ RenderDone
    /\ HasJSONHeader(hreq.orig)
    /\ ExtensionOf(hreq.orig.path) = <<Dot, "pdf">>
    /\ {JSON, <<"pdf">>} \subseteq DOMAIN adapters
    /\ adapters[JSON] # adapters[<<"pdf">>]
    /\ InvokedExactly(adapters[JSON])

\* C4: on every dispatch branch the adapter is handed the path cut at its
\* last ".": a path without "." arrives unchanged, any other path arrives
\* without its final "." and what follows it.
C4_PathTruncated ==
    (hreq.op = "Render" /\ hreq.log # <<>>) =>
        LET p == hreq.orig.path
            seen == hreq.log[1].path
        IN  IF HasToken(p, Dot)
            THEN seen \o ExtensionOf(p) = p
            ELSE seen = p

\* C4 witness: the JSON-header branch handed "views/home.v2" over for
\* "views/home.v2.json"
C4_Witness ==
    /\ RenderDone
    /\ HasJSONHeader(hreq.orig)
    /\ hreq.orig.path = <<"views", "/", "home", ".", "v2", ".", "json">>
    /\ hreq.log # <<>>
    /\ hreq.log[1].path = <<"views", "/", "home", ".", "v2">>

\* C5: whenever no RegisterAdapter call is inside its critical section,
\* Adapter(name) returns the adapter of the latest registration under name
\* together with true, and (nil, false) for a name never registered; a
\* registration leaves the adapters of all other names as they were.
C5_LastRegistrationWins ==
    mu = "none" =>
        \A n \in RegNames \cup {<<>>, <<"xml">>} :
            Adapter(adapters, n) =
                IF n \in DOMAIN lastReg
                THEN [adapter |-> lastReg[n], ok |-> TRUE]
                ELSE [adapter |-> NoAdapter, ok |-> FALSE]

\* C5 witness: "json" was given mock 1 at construction and mock 2 by a later
\* RegisterAdapter; Adapter("json") has returned mock 2
C5_Witness ==
    /\ ctorOpt = <<Opt(JSON, MockAdapter(1))>>
    /\ hreq.op = "Adapter"
    /\ hreq.pc = "done"
    /\ hreq.key = JSON
    /\ hreq.ok
    /\ hreq.adapter = MockAdapter(2)
    /\ lastReg[JSON] = MockAdapter(2)

\* C6 as the specification states it: a HyperView built by NewHyperView
\* without any adapter option has the default template adapter under "html"
\* and the default JSON adapter under "json".
C6_Original ==
    (ctorOpt = <<>> /\ adminCalls = 0) =>
        /\ Adapter(adapters, HTML).ok
        /\ Adapter(adapters, HTML).adapter.kind = "template"
        /\ Adapter(adapters, JSON).ok
        /\ Adapter(adapters, JSON).adapter.kind = "json"

\* C7 as the specification states it: MaybeRegisterDefaultAdapters stores a
\* default adapter only under a name that has none.  The calls whose check of
\* the name ran next to a concurrent write of the map are left out, so what
\* is stated is the behaviour of the calls without undefined behaviour.
C7_Original ==
    \A a \in Admins :
        (adm[a].op = "Maybe" /\ adm[a].pc = "write" /\ ~adm[a].raced) =>
            adm[a].name \notin DOMAIN adapters

\* the handler has returned from HyperView.Redirect
RedirectDone == hreq.op = "Redirect" /\ hreq.pc = "done"

HtmxShape(w, url) ==
    /\ w.status = 303
    /\ "HX-Redirect" \in DOMAIN w.headers
    /\ w.headers["HX-Redirect"] = url
    /\ w.body = <<TextChunk(<<"redirecting...">>)>>

XhrShape(w, url) ==
    /\ w.status = 200
    /\ "Content-Type" \in DOMAIN w.headers
    /\ w.headers["Content-Type"] = <<"application/json">>
    /\ w.body = <<JSONChunk([status |-> "redirect", message |-> "redirecting...",
                             url |-> url])>>

\* the directory of a request path: the path up to its last "/"
DirOf(p) ==
    CHOOSE d \in {SubSeq(p, 1, i) : i \in 1..Len(p)} :
        d[Len(d)] = Slash /\ ~HasToken(SubSeq(p, Len(d) + 1, Len(p)), Slash)

\* a path without ".", ".." or empty elements
IsCleanPath(p) ==
    /\ ~HasToken(p, "..")
    /\ ~HasToken(p, Dot)
    /\ \A i \in 1..(Len(p) - 1) : ~(p[i] = Slash /\ p[i + 1] = Slash)

\* C8, as amended: an HTMX request gets 303, HX-Redirect = url and the body
\* "redirecting..."; an XMLHttpRequest that is not an HTMX request gets 200,
\* Content-Type application/json and the JSON body with status "redirect",
\* message "redirecting..." and the url; any other request gets 302 with a
\* Location header that is url itself when url is absolute or a rooted clean
\* path, and otherwise url resolved against the directory of the request
\* path and cleaned: rooted, without ".." elements, and for a clean relative
\* url the directory followed by url.
C8_RedirectShapes ==
    RedirectDone =>
        LET r == hreq.req
            url == hreq.url
            w == hreq.w
            htmx == r.hx /\ ~r.boosted
        IN  /\ htmx => HtmxShape(w, url)
            /\ (~htmx /\ r.xhr) => XhrShape(w, url)
            /\ (~htmx /\ ~r.xhr) =>
                  /\ w.status = 302
                  /\ "Location" \in DOMAIN w.headers
                  /\ LET loc == w.headers["Location"]
                     IN  IF url[1] \in {"http:", "https:"} THEN loc = url
                         ELSE /\ loc[1] = Slash
                              /\ ~HasToken(loc, "..")
                              /\ IsCleanPath(url) =>
                                    loc = IF url[1] = Slash THEN url
                                          ELSE DirOf(r.path) \o url

\* C8 witness: a plain request for /admin/users redirected to "next" got
\* 302 with Location /admin/next
C8_Witness ==
    /\ RedirectDone
    /\ ~hreq.req.hx
    /\ ~hreq.req.xhr
    /\ hreq.req.path = <<"/", "admin", "/", "users">>
    /\ hreq.url = <<"next">>
    /\ hreq.w.status = 302
    /\ hreq.w.headers["Location"] = <<"/", "admin", "/", "next">>

\* C8 as the specification states it: the third shape carries a Location
\* header equal to url.
C8_Original ==
    RedirectDone =>
        LET r == hreq.req
            url == hreq.url
            w == hreq.w
            htmx == r.hx /\ ~r.boosted
        IN  /\ htmx => HtmxShape(w, url)
            /\ (~htmx /\ r.xhr) => XhrShape(w, url)
            /\ (~htmx /\ ~r.xhr) =>
                  /\ w.status = 302
                  /\ "Location" \in DOMAIN w.headers
                  /\ w.headers["Location"] = url

\* Render has run a template adapter
TemplateInvoked ==
    RenderDone /\ Len(hreq.log) = 1 /\ hreq.log[1].adapter.kind = "template"

\* a custom header of the Response is among the headers of the answer
SentCustomHeader ==
    \E k \in DOMAIN hreq.orig.headers :
        k \in DOMAIN hreq.w.headers /\ hreq.w.headers[k] = hreq.orig.headers[k]

SentPage == \E i \in 1..Len(hreq.w.body) : hreq.w.body[i].kind = "page"

SentStatusCode == hreq.orig.status # 0 /\ hreq.w.status = hreq.orig.status

\* C9: when the path a TemplateAdapter is asked to render is not a key of its
\* registry, the client gets status 500 with the "template not found" text,
\* not status 200, and none of the Response's custom headers.
C9_TemplateNotFound ==
    (TemplateInvoked
       /\ hreq.log[1].path \notin DOMAIN templates[hreq.log[1].adapter.id]) =>
        /\ hreq.w.status = 500
        /\ BodyContains(hreq.w, <<"template not found: ">>)
        /\ ~SentCustomHeader
        /\ ~SentPage

\* C9 witness: "views/nope" with an X-Trace header, on a site whose registry
\* holds other pages, was answered with the 500
C9_Witness ==
    /\ TemplateInvoked
    /\ hreq.log[1].path = <<"views", "/", "nope">>
    /\ templates[hreq.log[1].adapter.id] # EmptyMap
    /\ "X-Trace" \in DOMAIN hreq.orig.headers
    /\ hreq.w.status = 500
    /\ BodyContains(hreq.w, <<"template not found: ">>)

\* the lookup, the layout parse or the execution of the render failed
TemplateRenderFailed ==
    LET x == hreq.log[1].adapter
        layoutFile == <<"layouts", "/">> \o hreq.log[1].layout \o x.ext
    IN  \/ hreq.log[1].path \notin DOMAIN templates[x.id]
        \/ ~\E i \in 1..Len(disk) : disk[i].path = layoutFile /\ disk[i].good
        \/ ~hreq.ran

\* C10: a TemplateAdapter render sends the Response's custom headers, its
\* status code or the page only when lookup, layout parsing and execution
\* all succeeded; when one of them fails the client gets status 500 and
\* none of the three.
C10_FlushAfterSuccess ==
    TemplateInvoked =>
        /\ (SentCustomHeader \/ SentStatusCode \/ SentPage) => ~TemplateRenderFailed
        /\ TemplateRenderFailed =>
              /\ hreq.w.status = 500
              /\ ~SentCustomHeader
              /\ ~SentStatusCode
              /\ ~SentPage

\* C10 witness: the execution of the cached page "views/home" failed for a
\* Response with status 404 and an X-Trace header; the client got a bare 500
C10_Witness ==
    /\ TemplateInvoked
    /\ hreq.log[1].path \in DOMAIN templates[hreq.log[1].adapter.id]
    /\ ~hreq.ran
    /\ hreq.orig.status = 404
    /\ "X-Trace" \in DOMAIN hreq.orig.headers
    /\ hreq.w.status = 500
    /\ BodyContains(hreq.w, <<"error executing template: ">>)
    /\ "X-Trace" \notin DOMAIN hreq.w.headers

\* the execution of a cached page with a parsable layout failed
ExecutionFailed ==
    /\ TemplateInvoked
    /\ hreq.log[1].path \in DOMAIN templates[hreq.log[1].adapter.id]
    /\ \E i \in 1..Len(disk) :
          /\ disk[i].path = <<"layouts", "/">> \o hreq.log[1].layout
                                \o hreq.log[1].adapter.ext
          /\ disk[i].good
    /\ ~hreq.ran

\* the paths TemplateAdapter.Render was entered with while serving the request
TriedPaths == {hreq.tried[i] : i \in 1..Len(hreq.tried)}

\* C11: when the execution of a template fails and the adapter has the system
\* error page views/system/500, the adapter enters the rendering of that page,
\* unless the page that failed is views/system/500 itself, which is answered
\* with a plain-text 500.
C11_Original ==
    LET errorPage == ViewsPath(SystemDir, <<"500">>)
    IN  (ExecutionFailed /\ errorPage \in DOMAIN templates[hreq.log[1].adapter.id])
            => IF hreq.log[1].path = errorPage
               THEN hreq.w.status = StatusInternalServerError /\ ~SentPage
               ELSE errorPage \in TriedPaths

\* an error-page renderer of a TemplateAdapter has answered
TemplateErrorPageDone ==
    /\ hreq.op \in {"RenderErrorAs", "AdapterErrorPage"}
    /\ hreq.pc = "done"
    /\ hreq.ok
    /\ hreq.adapter.kind = "template"

\* the dedicated page of the renderer is not in the adapter's registry
DedicatedPageMissing ==
    <<"views", "/", "system", "/", hreq.page>> \notin DOMAIN templates[hreq.adapter.id]

\* the answer is the plain text msg with status code and nothing else
PlainTextAnswer(code, msg) ==
    /\ hreq.w.status = code
    /\ "Content-Type" \in DOMAIN hreq.w.headers
    /\ hreq.w.headers["Content-Type"] = <<"text/plain; charset=utf-8">>
    /\ hreq.w.body = <<[kind |-> "text", text |-> msg \o <<"\n">>]>>

PageStatusCode ==
    CASE hreq.page = "401" -> 401 [] hreq.page = "403" -> 403
      [] hreq.page = "404" -> 404 [] hreq.page = "405" -> 405
      [] hreq.page = "500" -> 500 [] hreq.page = "503" -> 503

FixedPageText ==
    CASE hreq.page = "401" -> <<"Unauthorized">>
      [] hreq.page = "403" -> <<"Forbidden">>
      [] hreq.page = "404" -> <<"Not Found">>
      [] hreq.page = "405" -> <<"Method Not Allowed">>
      [] hreq.page = "500" -> <<"Internal Server Error">>
      [] hreq.page = "503" -> <<"Maintenance">>

\* C12: when the dedicated page of a TemplateAdapter error-page renderer is
\* not in the registry, the renderer answers in plain text with the matching
\* status code (401, 403, 404, 405, 503, 500); the body is a fixed text for
\* the five renderers without an error argument and the text of the error
\* passed in for the system-error renderer.
C12_MissingPageFallback ==
    (TemplateErrorPageDone /\ DedicatedPageMissing)
        => PlainTextAnswer(PageStatusCode,
                           IF hreq.page = "500" THEN <<hreq.errMsg>>
                           ELSE FixedPageText)

\* C12 witness: RenderSystemError with the error "boom" on an adapter
\* without views/system/500 has answered 500 with the body "boom"
C12_Witness ==
    /\ TemplateErrorPageDone
    /\ DedicatedPageMissing
    /\ hreq.page = "500"
    /\ hreq.errMsg = "boom"
    /\ hreq.w.status = 500
    /\ BodyContains(hreq.w, <<"boom">>)

\* C12 as stated: the body of every fallback is a fixed text, the one of the
\* system-error renderer included (whichever text is taken as the fixed one,
\* an error with another text refutes it)
C12_Original ==
    (TemplateErrorPageDone /\ DedicatedPageMissing)
        => PlainTextAnswer(PageStatusCode, FixedPageText)

\* an error-page renderer of a built-in adapter has answered
ErrorPageDone ==
    /\ hreq.op \in {"RenderErrorAs", "AdapterErrorPage"}
    /\ hreq.pc = "done"
    /\ hreq.ok
    /\ hreq.adapter.kind \in {"template", "json"}

\* C13: no error-page renderer of a built-in adapter answers with status
\* 200, whatever status the Response passed to it carries and whether or not
\* the dedicated page exists.
C13_Original == ErrorPageDone => hreq.w.status # StatusOK

\* JSONAdapter.Render, called directly, has returned
JSONRenderReturned == hreq.op = "JSONAdapterRender" /\ hreq.pc = "done"

\* the answer is one JSON envelope with the given tag
SentEnvelope(tag) ==
    /\ Len(hreq.w.body) = 1
    /\ hreq.w.body[1].kind = "json"
    /\ hreq.w.body[1].value.status = tag

\* the code field of every envelope sent is the HTTP status written
CodeEchoesStatus ==
    \A i \in 1..Len(hreq.w.body) :
        hreq.w.body[i].kind = "json" => hreq.w.body[i].value.code = hreq.w.status

\* the status JSONAdapter.Render works with: 200 for an unset one
EffectiveStatus == IF hreq.orig.status = 0 THEN 200 ELSE hreq.orig.status

\* C14: in JSONAdapter.Render a status already set is never overwritten and
\* the code field of an envelope sent equals the HTTP status written; when
\* the page data serializes and the status is 0 or within 100..999, status 0
\* is rendered with HTTP status 200 and the "success" envelope, a status
\* above 299 with that status and the "fail" envelope, and a status from 100
\* to 299 with that status and the "success" envelope.
C14_JSONStatusRouting ==
    JSONRenderReturned =>
        /\ hreq.orig.status # 0 => hreq.resp.status = hreq.orig.status
        /\ CodeEchoesStatus
        /\ (hreq.ran /\ EffectiveStatus >= 100 /\ EffectiveStatus <= 999) =>
              /\ hreq.w.status = EffectiveStatus
              /\ SentEnvelope(IF EffectiveStatus > 299 THEN "fail" ELSE "success")

\* C14 witness: a Response with status 0 was answered with 200 and the
\* "success" envelope carrying code 200
C14_Witness ==
    /\ JSONRenderReturned
    /\ hreq.ran
    /\ hreq.orig.status = 0
    /\ hreq.w.status = 200
    /\ SentEnvelope("success")
    /\ hreq.w.body[1].value.code = 200

\* C14 as stated: for every status and whether or not the page data
\* serializes, 0 gives 200 and "success", above 299 gives "fail", 1 to 299
\* gives "success", and the envelope's code is the HTTP status written
C14_Original ==
    JSONRenderReturned =>
        /\ hreq.orig.status # 0 => hreq.resp.status = hreq.orig.status
        /\ hreq.w.status = EffectiveStatus
        /\ SentEnvelope(IF EffectiveStatus > 299 THEN "fail" ELSE "success")
        /\ hreq.w.body[1].value.code = hreq.w.status

\* the JSON adapter has answered: Render or one of its error-page renderers
JSONAdapterDone ==
    /\ hreq.pc = "done"
    /\ \/ hreq.op = "JSONAdapterRender"
       \/ /\ hreq.op \in {"RenderErrorAs", "AdapterErrorPage"}
          /\ hreq.ok
          /\ hreq.adapter.kind = "json"

\* the envelopes with tag "fail" among those sent
FailEnvelopes ==
    { hreq.w.body[i].value : i \in { j \in 1..Len(hreq.w.body) :
                                      /\ hreq.w.body[j].kind = "json"
                                      /\ hreq.w.body[j].value.status = "fail" } }

\* C15: every envelope with tag "fail" that the JSON adapter sends carries a
\* code greater than 299, for every Response status JSONAdapter.Render is
\* given: the 3xx codes are routed to the "fail" envelope as well.
C15_FailMeansAbove299 ==
    JSONAdapterDone => \A e \in FailEnvelopes : e.code > 299

\* C15 witness: JSONAdapter.Render with a Response of status 404 has sent
\* the "fail" envelope with code 404
C15_Witness ==
    /\ hreq.op = "JSONAdapterRender"
    /\ hreq.pc = "done"
    /\ hreq.orig.status = 404
    /\ \E e \in FailEnvelopes : e.code = 404

\* C15 as stated: "fail" implies a code in the 4xx/5xx range
C15_Original ==
    JSONAdapterDone => \A e \in FailEnvelopes : e.code >= 400 /\ e.code <= 599

\* C16: when serializing the page data fails in JSONAdapter.Render, nothing
\* of the failed attempt is written (no custom header of the Response, not
\* its status, no body of it): the client receives status 500 and exactly
\* one envelope, the "error" envelope with code 500 whose message is the
\* serialization error.
C16_MarshalFailureEscalates ==
    (JSONRenderReturned /\ ~hreq.ran) =>
        /\ hreq.w.status = StatusInternalServerError
        /\ \A k \in DOMAIN hreq.orig.headers : k \notin DOMAIN hreq.w.headers
        /\ hreq.w.body = <<[kind |-> "json",
                            value |-> [status |-> "error",
                                       message |-> "marshal error",
                                       data |-> "null", code |-> 500]]>>

\* C16 witness: the page data of a Response with status 201 and an X-Trace
\* header did not serialize; the client got 500 and the "error" envelope
C16_Witness ==
    /\ JSONRenderReturned
    /\ ~hreq.ran
    /\ hreq.orig.status = 201
    /\ "X-Trace" \in DOMAIN hreq.orig.headers
    /\ hreq.w.status = 500
    /\ SentEnvelope("error")

\* C17: after a TemplateAdapter.Init that returned a parse error the page
\* registry of the adapter is empty: it holds neither pages parsed earlier
\* in the failed pass nor entries cached before the call.
C17_Original ==
    \A a \in Admins :
        (/\ adm[a].op = "RegisterAdapter"
         /\ adm[a].pc = "done"
         /\ adm[a].err
         /\ adm[a].adapter.kind = "template")
            => templates[adm[a].adapter.id] = EmptyMap

\* the file of the page the render was asked for is on disk and parses, and
\* so do all the files of the adapter: every completed Init registers it
PageOnDisk ==
    LET x == hreq.log[1].adapter
    IN  /\ \A i \in 1..Len(disk) : FilepathExt(disk[i].path) = x.ext => disk[i].good
        /\ \E i \in 1..Len(disk) : disk[i].path = hreq.log[1].path \o x.ext

AnsweredTemplateNotFound ==
    /\ hreq.w.status = StatusInternalServerError
    /\ BodyContains(hreq.w, <<"template not found: ">> \o hreq.log[1].path)

\* C19: a facade Render of a page that every completed Init of its adapter
\* registers is answered "template not found" only when adapter.Render ran
\* while an Init of that adapter was rebuilding the registry, and this does
\* happen: the lock is held for the adapter lookup only.
C19_MissingOnlyMidRebuild ==
    (TemplateInvoked /\ PageOnDisk /\ AnsweredTemplateNotFound) => hreq.midInit

\* C19 witness: the render of views/home, looked up before Reinit took the
\* lock, ran during the rebuild and answered 500 "template not found",
\* although views/home.tmpl is on disk and was registered before
C19_Witness ==
    /\ TemplateInvoked
    /\ hreq.log[1].path = <<"views", "/", "home">>
    /\ hreq.log[1].adapter = DefaultHTML
    /\ PageOnDisk
    /\ AnsweredTemplateNotFound
    /\ hreq.midInit
    /\ \E a \in Admins : adm[a].op = "Reinit"

\* C18: the adapter map is never read while another goroutine writes it: no
\* goroutine is at a read of s.adapters while another one, holding the write
\* lock, is at its write of s.adapters.
C18_Original ==
    \A a \in Admins :
        ~(/\ adm[a].pc = "check"
          /\ \E b \in Admins \ {a} : adm[b].pc = "write" /\ mu = b)

\* C20: every facade Render that reaches a built-in adapter, or no adapter
\* at all, leaves the client with a status code and a body.
C20_Original ==
    (RenderDone /\ (hreq.ok => hreq.adapter.kind \in {"template", "json"}))
        => hreq.w.status # 0 /\ hreq.w.body # <<>>

\* C22: IsHtmxRequest is true iff HX-Request is set and HX-Boosted is not,
\* IsBoostedRequest iff HX-Boosted is set, IsAnyHtmxRequest iff either
\* header is set.
C22_HXPredicates ==
    (hreq.op = "HXHeaders" /\ hreq.pc = "done") =>
        /\ hreq.ret.htmx = (hreq.req.hx /\ ~hreq.req.boosted)
        /\ hreq.ret.boosted = hreq.req.boosted
        /\ hreq.ret.any = (hreq.req.hx \/ hreq.req.boosted)

\* C22 witness: for a request with both HX-Request and HX-Boosted,
\* IsHtmxRequest is false while the two other predicates are true
C22_Witness ==
    /\ hreq.op = "HXHeaders"
    /\ hreq.pc = "done"
    /\ hreq.req.hx
    /\ hreq.req.boosted
    /\ ~hreq.ret.htmx
    /\ hreq.ret.boosted
    /\ hreq.ret.any

SrcsetDone == hreq.op = "Srcset" /\ hreq.pc = "done"

\* a width as the srcset shows it: "w" is appended unless it ends in "w" or "x"
Descriptor(w) ==
    IF Len(w) > 0 /\ w[Len(w)] \in {"w", "x"} THEN w ELSE w \o <<"w">>

\* src with "-<width>" inserted before the extension that starts at the last
\* period of src
Candidate(src, w) ==
    LET i == CHOOSE k \in 1..Len(src) :
                 src[k] = "." /\ \A j \in (k + 1)..Len(src) : src[j] # "."
    IN  SubSeq(src, 1, i - 1) \o <<"-">> \o Descriptor(w) \o SubSeq(src, i, Len(src))

\* the candidates of the widths in their order, joined by ", "
RECURSIVE JoinedCandidates(_, _)
JoinedCandidates(src, widths) ==
    IF widths = <<>> THEN <<>>
    ELSE IF Len(widths) = 1 THEN Candidate(src, widths[1])
    ELSE Candidate(src, widths[1]) \o <<", ">> \o JoinedCandidates(src, Tail(widths))

\* C23: Srcset(src, widths...) returns "" when src is blank or no width is
\* given; otherwise it returns the widths in their order, joined by ", ",
\* each rendered as src with "-<width>" before the extension that starts at
\* the last period of src, a width without "w" or "x" suffix getting a "w".
C23_Original ==
    SrcsetDone =>
        LET src == hreq.args[1]
            widths == hreq.args[2]
        IN  /\ ~hreq.panicked
            /\ IF (\A i \in 1..Len(src) : src[i] = " ") \/ widths = <<>>
               THEN hreq.ret = <<>>
               ELSE (\E i \in 1..Len(src) : src[i] = ".")
                        => hreq.ret = JoinedCandidates(src, widths)

\* C30: Srcset is total: it returns a string and does not panic, for every
\* src and every list of widths.
C30_Original == SrcsetDone => ~hreq.panicked

\* how many of the three shapes the answer shows: the HX-Redirect header,
\* the JSON body, the Location header
ShapesShown ==
    LET hxShown == "HX-Redirect" \in DOMAIN hreq.w.headers
        jsonShown == \E i \in 1..Len(hreq.w.body) : hreq.w.body[i].kind = "json"
        locShown == "Location" \in DOMAIN hreq.w.headers
    IN  (IF hxShown THEN 1 ELSE 0) + (IF jsonShown THEN 1 ELSE 0)
            + (IF locShown THEN 1 ELSE 0)

\* C29: Redirect emits exactly one shape per call, chosen by a fixed
\* priority: HX-Request without HX-Boosted gets the HTMX shape (303 and
\* HX-Redirect) even when X-Requested-With: XMLHttpRequest is present;
\* HX-Request together with HX-Boosted is not HTMX and gets the
\* XMLHttpRequest shape if X-Requested-With is set, else the plain 302.
C29_RedirectPriority ==
    RedirectDone =>
        LET r == hreq.req
        IN  /\ ShapesShown = 1
            /\ (r.hx /\ ~r.boosted /\ r.xhr) =>
                  HtmxShape(hreq.w, hreq.url) /\ hreq.w.status = 303
            /\ (r.hx /\ r.boosted /\ r.xhr) =>
                  XhrShape(hreq.w, hreq.url) /\ hreq.w.status = 200
            /\ (r.hx /\ r.boosted /\ ~r.xhr) =>
                  hreq.w.status = 302 /\ "Location" \in DOMAIN hreq.w.headers

\* C29 witness: a boosted HTMX request that is also an XMLHttpRequest got
\* the JSON redirect with status 200
C29_Witness ==
    /\ RedirectDone
    /\ hreq.req.hx
    /\ hreq.req.boosted
    /\ hreq.req.xhr
    /\ hreq.w.status = 200
    /\ XhrShape(hreq.w, hreq.url)

\* C27: RegisterAdapter stores the adapter before it calls Init: when Init
\* has returned an error and no later registration under the name has
\* begun (the latest one is of this adapter and none is about to store), the
\* adapter is registered under the name, whatever was registered there
\* before, and Adapter(name) returns it.
C27_FailedInitStaysRegistered ==
    \A a \in Admins :
        (/\ adm[a].op = "RegisterAdapter"
         /\ adm[a].pc = "done"
         /\ adm[a].err
         /\ lastReg[adm[a].name] = adm[a].adapter
         /\ \A b \in Admins \ {a} :
                ~(adm[b].pc = "write" /\ adm[b].name = adm[a].name))
            => Adapter(adapters, adm[a].name) =
                   [adapter |-> adm[a].adapter, ok |-> TRUE]

\* C27 witness: "json" held mock 1 from construction; RegisterAdapter("json",
\* mock 2) returned the error of Init; a later Adapter("json") returned mock 2
C27_Witness ==
    /\ ctorOpt = <<Opt(JSON, MockAdapter(1))>>
    /\ adm["a1"].op = "RegisterAdapter"
    /\ adm["a1"].pc = "done"
    /\ adm["a1"].err
    /\ adm["a1"].name = JSON
    /\ adm["a1"].adapter = MockAdapter(2)
    /\ adm["a2"].op = "none"
    /\ hreq.op = "Adapter"
    /\ hreq.pc = "done"
    /\ hreq.key = JSON
    /\ hreq.ok
    /\ hreq.adapter = MockAdapter(2)

\* a path cut at its last ".": what precedes the last "." of the path, and
\* the path itself when it has none
CutAtLastDot(p) ==
    IF \E i \in 1..Len(p) : p[i] = "."
    THEN LET i == CHOOSE k \in 1..Len(p) :
                      p[k] = "." /\ \A j \in (k + 1)..Len(p) : p[j] # "."
         IN  SubSeq(p, 1, i - 1)
    ELSE p

\* C26: Render changes the Response it is given: when it has returned, the
\* path of the Response is the path it was given cut at its last ".", and a
\* second Render of the same Response dispatches on that stripped path; a
\* Response with path "x.json" and no JSON Content-Type header goes to the
\* "json" adapter first and to the "html" adapter the second time.
C26_RenderMutatesResponse ==
    /\ RenderDone => hreq.resp.path = CutAtLastDot(hreq.orig.path)
    /\ (hreq.op = "Render" /\ hreq.again) =>
          /\ hreq.orig = hreq.first.resp
          /\ hreq.orig.path = CutAtLastDot(hreq.first.orig.path)
          /\ hreq.key =
                IF RespHeaderGet(hreq.orig, "Content-Type") = <<"application/json">>
                THEN <<"json">>
                ELSE IF ExtensionOf(hreq.orig.path) \in {<<>>, <<".", "html">>}
                     THEN <<"html">>
                     ELSE Tail(ExtensionOf(hreq.orig.path))
          /\ (/\ hreq.first.orig.path = <<"x", ".", "json">>
              /\ "Content-Type" \notin DOMAIN hreq.first.orig.headers)
                => hreq.first.key = <<"json">> /\ hreq.key = <<"html">>

\* C26 witness: the Response with path "x.json" was rendered by the JSON
\* adapter, then handed to Render again and dispatched to "html" with the
\* path "x"
C26_Witness ==
    /\ RenderDone
    /\ hreq.again
    /\ hreq.first.orig.path = <<"x", ".", "json">>
    /\ "Content-Type" \notin DOMAIN hreq.first.orig.headers
    /\ hreq.first.key = <<"json">>
    /\ hreq.key = <<"html">>
    /\ hreq.orig.path = <<"x">>
    /\ hreq.log # <<>>
    /\ hreq.log[1].path = <<"x">>


\* a direct TemplateAdapter.Render has returned
TemplateRenderReturned == hreq.op = "TemplateRender" /\ hreq.pc = "done"

\* the file of the view a path names when the path is read relative to the
\* views directory: views/<path><ext>
ViewFile(p, ext) == ViewsDir \o <<Slash>> \o p \o ext

\* some entry of the registry is the compiled file `path` of the root source
RegisteredRootFile(reg, path) ==
    \E k \in DOMAIN reg : reg[k].fs = RootFSID /\ disk[reg[k].file].path = path

\* C21: a view is addressed by its path relative to the views directory:
\* when the registry of the adapter holds the compiled entry of the file
\* views/<path><ext>, a render of the Response with that path (a layout that
\* parses, an execution that succeeds) sends the page and not "template not
\* found".
C21_Original ==
    (/\ TemplateRenderReturned
     /\ hreq.ran
     /\ RegisteredRootFile(templates[hreq.adapter.id],
                           ViewFile(hreq.orig.path, hreq.adapter.ext))
     /\ \E i \in 1..Len(disk) :
            /\ disk[i].path = LayoutsDir \o <<Slash>> \o hreq.orig.layout
                                 \o hreq.adapter.ext
            /\ disk[i].good)
        => /\ SentPage
           /\ ~BodyContains(hreq.w, <<"template not found: ">>)


SourcesOf(x) == MapSet(fileSystemMap[x.id], RootFSID, disk)

\* the page files of the sources: non-directory files with the adapter's
\* extension below views/, as pairs of source id and position
PageFiles(x) ==
    {f \in UNION {{<<id, i>> : i \in 1..Len(SourcesOf(x)[id])} : id \in DOMAIN SourcesOf(x)} :
        /\ InDir(SourcesOf(x)[f[1]][f[2]], ViewsDir)
        /\ FilepathExt(SourcesOf(x)[f[1]][f[2]].path) = x.ext}

\* the key the claim gives a page file: its path without the extension,
\* behind "<sourceID>:" iff the source is not the root
KeyOfFile(x, f) ==
    LET p == SourcesOf(x)[f[1]][f[2]].path
        stem == SubSeq(p, 1, Len(p) - Len(x.ext))
    IN  IF f[1] = RootFSID THEN stem ELSE f[1] \o <<Colon>> \o stem

\* a source id that cannot make the key of one source look like the key of
\* another: it holds no ":" and does not begin with "views/"
PlainSourceID(id) ==
    /\ ~HasToken(id, Colon)
    /\ ~(Len(id) >= 2 /\ id[1] = ViewsDir[1] /\ id[2] = Slash)

\* the built adapters whose Init has returned, and those where it returned nil
InitReturned == {adm[a].adapter : a \in {b \in Admins : adm[b].op = "Init"}}
InitReturnedNil ==
    {adm[a].adapter : a \in {b \in Admins : adm[b].op = "Init" /\ ~adm[b].err}}

\* every entry of the registry is a page file of a source under that file's key
EntriesArePageFiles(x) ==
    \A k \in DOMAIN templates[x.id] :
        LET e == templates[x.id][k]
        IN  <<e.fs, e.file>> \in PageFiles(x) /\ k = KeyOfFile(x, <<e.fs, e.file>>)

\* every page file has its own entry, under its key
OneEntryPerFile(x) ==
    \A f \in PageFiles(x) :
        /\ KeyOfFile(x, f) \in DOMAIN templates[x.id]
        /\ templates[x.id][KeyOfFile(x, f)] = [fs |-> f[1], file |-> f[2]]

\* C24 (amended): after an Init that returned nil, the registry holds
\* entries of page files only (non-directory files with the configured
\* extension below views/ of a mounted source), each under the file's path
\* without the extension, prefixed with "<sourceID>:" iff the source is not
\* the root, and the key of every page file is registered.  When no source id
\* holds ":" or begins with "views/", every page file has exactly one entry of
\* its own and entries of different sources never share a key.
C24_InitRegistersSources ==
    \A x \in InitReturnedNil :
        /\ EntriesArePageFiles(x)
        /\ \A f \in PageFiles(x) : KeyOfFile(x, f) \in DOMAIN templates[x.id]
        /\ (\A id \in DOMAIN fileSystemMap[x.id] : PlainSourceID(id))
              => OneEntryPerFile(x)

\* C24 witness: an Init over the root and the source "admin" returned nil;
\* views/home.tmpl of both is registered, under views/home and under
\* admin:views/home, and views/readme.txt of "admin" has no entry
C24_Witness ==
    \E x \in InitReturnedNil :
        /\ DOMAIN fileSystemMap[x.id] = {<<"admin">>}
        /\ templates[x.id][<<"views", "/", "home">>] = [fs |-> RootFSID, file |-> 5]
        /\ templates[x.id][<<"admin", ":", "views", "/", "home">>]
              = [fs |-> <<"admin">>, file |-> 2]
        /\ <<"admin", ":", "views", "/", "readme">> \notin DOMAIN templates[x.id]
        /\ Cardinality(DOMAIN templates[x.id]) = 5

\* C24 as stated: whenever Init has returned, every page file of every
\* mounted source has exactly one entry of its own, so the entries of
\* differently named sources never share a key.
C24_Original ==
    \A x \in InitReturned : EntriesArePageFiles(x) /\ OneEntryPerFile(x)


\* the function table an adapter built from Funcs would hold on its own: the
\* defaults with the adapter's custom functions stored over them
OwnFuncMap(fns) ==
    [n \in DOMAIN DefaultFuncMap \cup DOMAIN fns |->
        IF n \in DOMAIN fns THEN fns[n] ELSE DefaultFuncMap[n]]

\* C28: template function tables are isolated per adapter: whatever adapters
\* are built with custom Funcs, the package-level default table stays as it
\* is declared, the facade's adapter (built without custom functions) sees
\* the defaults, and every built adapter sees the defaults with its own
\* custom functions and nothing of another adapter's.
C28_Original ==
    /\ FuncMap = DefaultFuncMap
    /\ AdapterFuncMap(DefaultHTML) = DefaultFuncMap
    /\ \A a \in Admins :
          adm[a].op \in {"New", "Init"} =>
              AdapterFuncMap(adm[a].adapter) = OwnFuncMap(adm[a].funcs)

====
